---- MODULE Spec2Model ----
(***************************************************************************)
(* Model of the manim-orchestrator-api: the relational store (users and    *)
(* manim_projects with their constraints), the auth handlers, the project  *)
(* CRUD handlers, the generate-render trigger and the render callback.     *)
(*                                                                         *)
(* Texts that the code trims, lower-cases or measures are tuples of        *)
(* one-character strings; texts that are only compared or stored verbatim  *)
(* (status, URL) are strings.  UUIDs are drawn from a counter: a fresh id  *)
(* never collides with an earlier one.  created_at order is id order.      *)
(***************************************************************************)
EXTENDS Naturals, Integers, Sequences, FiniteSets, TLC

\* ---------------------------------------------------------------- bounds
MaxUsers == 2
MaxProjects == 2
MaxRenderProjects == 1
MaxInFlight == 1

\* ------------------------------------------------------ program constants
NameMin == 3
NameMax == 255
PromptMin == 10
UsernameMin == 3
UsernameMax == 30
PasswordMin == 8
PasswordMax == 100
RenderStatusMax == 50
StatusAccepted == 202
StatusOK == 200
StatusBadGateway == 502

\* ------------------------------------------------------------------ texts
Space == {" ", "\t", "\n", "\r"}

RECURSIVE TrimLeft(_)
TrimLeft(s) ==
    IF s # <<>> /\ Head(s) \in Space THEN TrimLeft(Tail(s)) ELSE s

RECURSIVE TrimRight(_)
TrimRight(s) ==
    IF s # <<>> /\ s[Len(s)] \in Space
    THEN TrimRight(SubSeq(s, 1, Len(s) - 1))
    ELSE s

\* strings.TrimSpace
TrimSpace(s) == TrimRight(TrimLeft(s))

LowerOf(c) ==
    CASE c = "A" -> "a"
      [] c = "B" -> "b"
      [] c = "X" -> "x"
      [] OTHER -> c

\* strings.ToLower
ToLower_Identity(s) == s

ToLower(s) == [i \in 1..Len(s) |-> LowerOf(s[i])]

\* the validator's "email" tag: one "@" with text on both sides, no blank
IsEmail(s) ==
    /\ \A i \in 1..Len(s) : s[i] \notin Space
    /\ \E i \in 2..(Len(s) - 1) :
          /\ s[i] = "@"
          /\ \A j \in 1..Len(s) : s[j] = "@" => j = i

\* ------------------------------------------------------------ input texts
T_abc == <<"a", "b", "c">>
T_abd == <<"a", "b", "d">>
T_sp_abc == <<" ", "a", "b", "c">>
T_blank3 == <<" ", " ", " ">>
T_xyz == <<"x", "y", "z">>
T_ab == <<"a", "b">>
T_sp_ab == <<" ", "a", "b">>
T_prompt == <<"d", "r", "a", "w", " ", "a", " ", "d", "o", "t">>
T_sp_prompt == <<" ">> \o T_prompt
T_blank10 == <<" ", " ", " ", " ", " ", " ", " ", " ", " ", " ">>
T_short == <<"h", "i">>
T_desc == <<"d", " ">>
T_ann == <<"a", "n", "n">>
T_bob == <<"b", "o", "b">>
T_a_at_x == <<"a", "@", "x">>
T_A_at_x == <<"A", "@", "x">>
T_b_at_x == <<"b", "@", "x">>
T_noemail == <<"a", "x">>
T_password == <<"p", "a", "s", "s", "w", "o", "r", "d">>
T_wrongpass == <<"w", "r", "o", "n", "g", "p", "w", "d">>

\* ------------------------------------------------------------------ state
VARIABLES
    users,          \* rows of table users
    nextUserID,     \* the next uuid_generate_v4() of users
    projects,       \* rows of table manim_projects
    nextProjectID,  \* the next uuid_generate_v4() of manim_projects
    tokens,         \* the claims of every token GenerateToken has signed
    req,            \* generate-render requests in flight, by server slot
    awaiting,       \* projects with a render accepted (202) and no callback since
    mergedVideos,   \* rows of table merged_videos
    resp            \* the response of the request handled last

vars == <<users, nextUserID, projects, nextProjectID, tokens, req, awaiting,
          mergedVideos, resp>>

NullString == [Valid |-> FALSE, String |-> ""]
ValidString(s) == [Valid |-> TRUE, String |-> s]

NoData == [kind |-> "none"]
NoClaims == [UserID |-> 0, Email |-> <<>>, Username |-> <<>>, Subject |-> 0]

Response(op, code, claims, pid, data) ==
    [op |-> op, code |-> code, caller |-> claims.UserID, pid |-> pid, data |-> data]

Slots == 1..MaxInFlight
IdleSlot == [pc |-> "idle"]

Init ==
    /\ users = {}
    /\ nextUserID = 1
    /\ projects = {}
    /\ nextProjectID = 1
    /\ tokens = {}
    /\ req = [s \in Slots |-> IdleSlot]
    /\ awaiting = {}
    /\ mergedVideos = {}
    /\ resp = Response("start", 0, NoClaims, 0, NoData)

\* ------------------------------------------------------- store: users
NoRow == [id |-> 0]

\* SELECT ... FROM users WHERE email = $1 (exact, case-sensitive match)
FindUserByEmail(email) ==
    IF \E u \in users : u.email = email
    THEN CHOOSE u \in users : u.email = email
    ELSE NoRow

\* INSERT INTO users: username UNIQUE VARCHAR(50), email UNIQUE VARCHAR(255).
\* Returns the error flag and the created row (id from uuid_generate_v4()).
CreateUser(user) ==
    LET row == [id |-> nextUserID, username |-> user.username,
                email |-> user.email, password_hash |-> user.password_hash]
        violates == \/ \E u \in users : u.username = user.username
                    \/ \E u \in users : u.email = user.email
                    \/ Len(user.username) > 50
                    \/ Len(user.email) > 255
    IN  IF violates THEN [err |-> TRUE, row |-> NoRow, users |-> users]
        ELSE [err |-> FALSE, row |-> row, users |-> users \cup {row}]

\* DELETE FROM users WHERE id = $1; fk_user ON DELETE CASCADE removes the
\* user's manim_projects rows in the same statement.
DeleteUserRow_NoCascade(id) ==
    [users |-> {u \in users : u.id # id}, projects |-> projects]

DeleteUserRow(id) ==
    [users |-> {u \in users : u.id # id},
     projects |-> {p \in projects : p.user_id # id}]

\* ---------------------------------------------------------- credentials
\* bcrypt.GenerateFromPassword: a salted hash, never the password itself
GenerateFromPassword(password, salt) ==
    [alg |-> "bcrypt", salt |-> salt, digest |-> password]

\* bcrypt.CompareHashAndPassword
CompareHashAndPassword(hash, password) ==
    hash.alg = "bcrypt" /\ hash.digest = password

\* GenerateToken: the claims an HS256 token signed with the secret carries
GenerateToken_EmailSubject(userID, email, username) ==
    [UserID |-> userID, Email |-> email, Username |-> username, Subject |-> 0]

GenerateToken(userID, email, username) ==
    [UserID |-> userID, Email |-> email, Username |-> username, Subject |-> userID]

T_Bearer == <<"B", "e", "a", "r", "e", "r">>
T_bearer == <<"b", "e", "a", "r", "e", "r">>
T_Basic == <<"B", "a", "s", "i", "c">>

NoHeader == [scheme |-> <<>>, parts |-> 0]
Header(scheme, claims, alg, signed, expired) ==
    [scheme |-> scheme, parts |-> 2, claims |-> claims, alg |-> alg,
     signed |-> signed, expired |-> expired]

\* ValidateToken: HMAC algorithm, signature made with the secret, not expired
ValidateToken_IgnoresExpiry(h) ==
    h.alg = "HS256" /\ h.signed

ValidateToken(h) ==
    h.alg = "HS256" /\ h.signed /\ ~h.expired

\* AuthMiddleware: the claims the handler sees, or the 401 that aborts
AuthMiddleware(h) ==
    IF h = NoHeader THEN [ok |-> FALSE, claims |-> NoClaims]
    ELSE IF h.parts # 2 \/ ToLower(h.scheme) # T_bearer
         THEN [ok |-> FALSE, claims |-> NoClaims]
    ELSE IF ~ValidateToken(h) THEN [ok |-> FALSE, claims |-> NoClaims]
    ELSE [ok |-> TRUE, claims |-> h.claims]

\* The Authorization headers a client sends: none, or a token the server
\* signed and that has not expired.
Headers ==
    {NoHeader} \cup {Header(T_Bearer, c, "HS256", TRUE, FALSE) : c \in tokens}

\* Headers the middleware rejects: a signed token that expired, a signed
\* token under another scheme, and tokens the client made itself (bad
\* signature, or alg "none").
BadHeaders ==
    {NoHeader}
    \cup {Header(T_Bearer, c, "HS256", TRUE, TRUE) : c \in tokens}
    \cup {Header(T_Basic, c, "HS256", TRUE, FALSE) : c \in tokens}
    \cup {Header(T_Bearer, c, "HS256", FALSE, FALSE) : c \in tokens}
    \cup {Header(T_Bearer, c, "none", FALSE, FALSE) : c \in tokens}

\* Headers that are not "<scheme> <token>": one part, or three
MalformedHeaders ==
    {[scheme |-> T_Bearer, parts |-> 1], [scheme |-> T_Bearer, parts |-> 3]}

\* -------------------------------------------------------- auth handlers
ValidRegister(username, email, password) ==
    /\ Len(username) >= UsernameMin /\ Len(username) <= UsernameMax
    /\ email # <<>> /\ IsEmail(email)
    /\ Len(password) >= PasswordMin /\ Len(password) <= PasswordMax

\* the registration a response answers (the response body itself is empty)
RegisterData(username, email, password) ==
    [kind |-> "register", username |-> username, email |-> email,
     password |-> password]

\* POST /auth/register
RegisterUser(username, email, password, salt) ==
    LET lower == ToLower(email)
        existingUser == FindUserByEmail(lower)
        user == [username |-> username, email |-> lower,
                 password_hash |-> GenerateFromPassword(password, salt)]
        created == CreateUser(user)
        data == RegisterData(username, email, password)
    IN
    /\ IF ~ValidRegister(username, email, password)
       THEN /\ resp' = Response("register", 400, NoClaims, 0, data)
            /\ UNCHANGED <<users, nextUserID>>
       ELSE IF existingUser # NoRow
       THEN /\ resp' = Response("register", 409, NoClaims, 0, data)
            /\ UNCHANGED <<users, nextUserID>>
       ELSE IF created.err
       THEN /\ resp' = Response("register", 500, NoClaims, 0, data)
            /\ UNCHANGED <<users, nextUserID>>
       ELSE /\ nextUserID <= MaxUsers
            /\ users' = created.users
            /\ nextUserID' = nextUserID + 1
            /\ resp' = Response("register", 201, NoClaims, 0, data)
    /\ UNCHANGED mergedVideos
    /\ UNCHANGED <<projects, nextProjectID, tokens, req, awaiting>>

\* ResponseWithError(c, status, message, nil)
ErrorData(message) ==
    [kind |-> "error", message |-> message, error |-> "nil"]

\* POST /auth/login: the response
LoginResponse_NotFound(email, password) ==
    LET lower == ToLower(email)
        user == FindUserByEmail(lower)
    IN  IF email = <<>> \/ ~IsEmail(email) \/ password = <<>>
        THEN Response("login", 400, NoClaims, 0, NoData)
        ELSE IF user = NoRow
        THEN Response("login", 404, NoClaims, 0, ErrorData("User not found"))
        ELSE IF ~CompareHashAndPassword(user.password_hash, password)
        THEN Response("login", 401, NoClaims, 0,
                      ErrorData("Invalid credentials"))
        ELSE Response("login", 200, NoClaims, 0,
                      [kind |-> "token",
                       token |-> GenerateToken(user.id, user.email,
                                               user.username)])

LoginResponse(email, password) ==
    LET lower == ToLower(email)
        user == FindUserByEmail(lower)
    IN  IF email = <<>> \/ ~IsEmail(email) \/ password = <<>>
        THEN Response("login", 400, NoClaims, 0, NoData)
        ELSE IF user = NoRow
        THEN Response("login", 401, NoClaims, 0,
                      ErrorData("Invalid credentials"))
        ELSE IF ~CompareHashAndPassword(user.password_hash, password)
        THEN Response("login", 401, NoClaims, 0,
                      ErrorData("Invalid credentials"))
        ELSE Response("login", 200, NoClaims, 0,
                      [kind |-> "token",
                       token |-> GenerateToken(user.id, user.email,
                                               user.username)])

\* POST /auth/login
LoginUser(email, password) ==
    LET answer == LoginResponse(email, password)
    IN
    /\ resp' = answer
    /\ tokens' = IF answer.code = 200 THEN tokens \cup {answer.data.token}
                 ELSE tokens
    /\ UNCHANGED mergedVideos
    /\ UNCHANGED <<users, nextUserID, projects, nextProjectID, req, awaiting>>

\* POST /api/delete
DeleteUser(h) ==
    LET auth == AuthMiddleware(h)
        claims == auth.claims
        userToDelete == FindUserByEmail(claims.Email)
        deleted == DeleteUserRow(userToDelete.id)
    IN
    /\ IF ~auth.ok
       THEN /\ resp' = Response("delete_account", 401, NoClaims, 0, NoData)
            /\ UNCHANGED <<users, projects>>
       ELSE IF userToDelete = NoRow
       THEN /\ resp' = Response("delete_account", 404, claims, 0, NoData)
            /\ UNCHANGED <<users, projects>>
       ELSE /\ users' = deleted.users
            /\ projects' = deleted.projects
            /\ resp' = Response("delete_account", 204, claims, 0, NoData)
    /\ awaiting' = {i \in awaiting : \E p \in projects' : p.id = i}
    /\ UNCHANGED mergedVideos
    /\ UNCHANGED <<nextUserID, nextProjectID, tokens, req>>

\* GET /api/profile
GetProfile(h) ==
    LET auth == AuthMiddleware(h)
        claims == auth.claims
    IN
    /\ IF ~auth.ok
       THEN resp' = Response("profile", 401, NoClaims, 0, NoData)
       ELSE resp' = Response("profile", 200, claims, 0,
                             [kind |-> "profile", user_id |-> claims.UserID,
                              email |-> claims.Email,
                              username |-> claims.Username])
    /\ UNCHANGED mergedVideos
    /\ UNCHANGED <<users, nextUserID, projects, nextProjectID, tokens, req,
                   awaiting>>

\* ---------------------------------------------- store: manim_projects
\* No handler ever sets parent_project_id: the column stays NULL and is
\* left out of the rows.
ProjectIDs == {p.id : p \in projects}

\* SELECT ... FROM manim_projects WHERE id = $1
FindManimProjectByID(projectID) ==
    IF \E p \in projects : p.id = projectID
    THEN CHOOSE p \in projects : p.id = projectID
    ELSE NoRow

\* SELECT ... WHERE name = $1 AND user_id = $2
FindManimProjectByNameAndUserID_AnyUser(name, userID) ==
    IF \E p \in projects : p.name = name
    THEN CHOOSE p \in projects : p.name = name
    ELSE NoRow

FindManimProjectByNameAndUserID(name, userID) ==
    IF \E p \in projects : p.name = name /\ p.user_id = userID
    THEN CHOOSE p \in projects : p.name = name /\ p.user_id = userID
    ELSE NoRow

\* SELECT ... WHERE user_id = $1 ORDER BY created_at DESC
RECURSIVE NewestFirst(_)
NewestFirst(rows) ==
    IF rows = {} THEN <<>>
    ELSE LET newest == CHOOSE p \in rows : \A q \in rows : q.id <= p.id
         IN  <<newest>> \o NewestFirst(rows \ {newest})

FindManimProjectsByUserID(userID) ==
    NewestFirst({p \in projects : p.user_id = userID})

\* The constraints a row must meet against the other rows of the table:
\* fk_user, idx_manim_projects_user_id_name (unique), name_not_empty,
\* name VARCHAR(255), render_status VARCHAR(50).
RowViolates_NoUnique(row, others) ==
    \/ ~\E u \in users : u.id = row.user_id
    \/ row.name = <<>>
    \/ Len(row.name) > NameMax
    \/ Len(row.render_status) > RenderStatusMax

RowViolates(row, others) ==
    \/ ~\E u \in users : u.id = row.user_id
    \/ \E q \in others : q.user_id = row.user_id /\ q.name = row.name
    \/ row.name = <<>>
    \/ Len(row.name) > NameMax
    \/ Len(row.render_status) > RenderStatusMax

\* INSERT INTO manim_projects ... RETURNING id
CreateManimProjectRow(project) ==
    LET status == IF project.render_status = "" THEN "pending"
                  ELSE project.render_status
        row == [id |-> nextProjectID, user_id |-> project.user_id,
                name |-> project.name, description |-> project.description,
                prompt |-> project.prompt, render_status |-> status,
                video_url |-> project.video_url]
    IN  IF RowViolates(row, projects)
        THEN [err |-> TRUE, row |-> NoRow, projects |-> projects]
        ELSE [err |-> FALSE, row |-> row, projects |-> projects \cup {row}]

\* UPDATE manim_projects SET name, description, prompt, render_status,
\* video_url WHERE id = :id AND user_id = :user_id
UpdateManimProjectRow(project) ==
    LET hit == {p \in projects :
                   p.id = project.id /\ p.user_id = project.user_id}
        others == projects \ hit
    IN  IF hit = {} THEN [err |-> "ErrNoRows", projects |-> projects]
        ELSE IF RowViolates(project, others)
        THEN [err |-> "error", projects |-> projects]
        ELSE [err |-> "nil", projects |-> others \cup {project}]

\* DELETE FROM manim_projects WHERE id = $1 AND user_id = $2
DeleteManimProjectRow_AnyOwner(projectID, userID) ==
    LET hit == {p \in projects : p.id = projectID}
    IN  IF hit = {} THEN [err |-> "ErrNoRows", projects |-> projects]
        ELSE [err |-> "nil", projects |-> projects \ hit]

DeleteManimProjectRow(projectID, userID) ==
    LET hit == {p \in projects : p.id = projectID /\ p.user_id = userID}
    IN  IF hit = {} THEN [err |-> "ErrNoRows", projects |-> projects]
        ELSE [err |-> "nil", projects |-> projects \ hit]

\* ------------------------------------------------------ project handlers
U_old == "https://41eca3477bd94f0eb869bef997e35147.r2.dev/a.mp4"
U_pub == "https://pub-b0b0ca8b1fc2487b82486c56d37c2667.r2.dev/a.mp4"
U_cdn == "https://cdn.test/b.mp4"

BadParam == [text |-> "not-a-uuid", id |-> 0]
IDParam(n) == [text |-> "uuid", id |-> n]

\* uuid.Parse
UuidParse_Lenient(param) == [err |-> FALSE, id |-> param.id]

UuidParse(param) ==
    IF param.text = "uuid" THEN [err |-> FALSE, id |-> param.id]
    ELSE [err |-> TRUE, id |-> 0]

\* newProjectResponse
newProjectResponse(project) ==
    [kind |-> "project", ID |-> project.id, UserID |-> project.user_id,
     Name |-> project.name, Description |-> project.description,
     Prompt |-> project.prompt, RenderStatus |-> project.render_status,
     VideoURL |-> IF project.video_url.Valid THEN project.video_url.String
                  ELSE ""]

\* the list handler's rewrite of the storage domain of a video URL
PublicURL(url) == IF url = U_old THEN U_pub ELSE url

Nil == [set |-> FALSE, v |-> <<>>]
Ptr(x) == [set |-> TRUE, v |-> x]

\* binding:"required,min=3,max=255" and binding:"required,min=10"
ValidCreate(name, prompt) ==
    /\ Len(name) >= NameMin /\ Len(name) <= NameMax
    /\ Len(prompt) >= PromptMin

\* binding:"omitempty,min=3,max=255" and "omitempty,min=10" on pointers
ValidUpdate(name, prompt) ==
    /\ (name.set /\ name.v # <<>>) =>
           Len(name.v) >= NameMin /\ Len(name.v) <= NameMax
    /\ (prompt.set /\ prompt.v # <<>>) => Len(prompt.v) >= PromptMin

\* POST /api/projects
CreateManimProject(h, name, description, prompt, cap) ==
    LET auth == AuthMiddleware(h)
        claims == auth.claims
        existingProject == FindManimProjectByNameAndUserID(name, claims.UserID)
        project == [user_id |-> claims.UserID, name |-> TrimSpace(name),
                    description |-> TrimSpace(description),
                    prompt |-> TrimSpace(prompt), render_status |-> "pending",
                    video_url |-> NullString]
        created == CreateManimProjectRow(project)
    IN
    /\ IF ~auth.ok
       THEN /\ resp' = Response("create", 401, NoClaims, 0, NoData)
            /\ UNCHANGED <<projects, nextProjectID>>
       ELSE IF ~ValidCreate(name, prompt)
       THEN /\ resp' = Response("create", 400, claims, 0, NoData)
            /\ UNCHANGED <<projects, nextProjectID>>
       ELSE IF existingProject # NoRow
       THEN /\ resp' = Response("create", 409, claims, 0, NoData)
            /\ UNCHANGED <<projects, nextProjectID>>
       ELSE IF created.err
       THEN /\ resp' = Response("create", 500, claims, 0, NoData)
            /\ UNCHANGED <<projects, nextProjectID>>
       ELSE /\ nextProjectID <= cap
            /\ projects' = created.projects
            /\ nextProjectID' = nextProjectID + 1
            /\ resp' = Response("create", 201, claims, created.row.id,
                                newProjectResponse(created.row))
    /\ UNCHANGED mergedVideos
    /\ UNCHANGED <<users, nextUserID, tokens, req, awaiting>>

\* GET /api/projects
GetUserManimProjects(h) ==
    LET auth == AuthMiddleware(h)
        claims == auth.claims
        found == FindManimProjectsByUserID(claims.UserID)
        projectResponses ==
            [i \in 1..Len(found) |->
                LET pr == newProjectResponse(found[i])
                IN  [pr EXCEPT !.VideoURL = PublicURL(pr.VideoURL)]]
    IN
    /\ IF ~auth.ok
       THEN resp' = Response("list", 401, NoClaims, 0, NoData)
       ELSE resp' = Response("list", 200, claims, 0,
                             [kind |-> "list", items |-> projectResponses])
    /\ UNCHANGED mergedVideos
    /\ UNCHANGED <<users, nextUserID, projects, nextProjectID, tokens, req,
                   awaiting>>

\* GET /api/projects/:id
GetManimProjectByID_NoOwnerCheck(h, param) ==
    LET auth == AuthMiddleware(h)
        claims == auth.claims
        parsed == UuidParse(param)
        project == FindManimProjectByID(parsed.id)
    IN
    /\ IF ~auth.ok
       THEN resp' = Response("get", 401, NoClaims, param.id, NoData)
       ELSE IF parsed.err
       THEN resp' = Response("get", 400, claims, param.id, NoData)
       ELSE IF project = NoRow
       THEN resp' = Response("get", 404, claims, param.id, NoData)
       ELSE resp' = Response("get", 200, claims, param.id,
                             newProjectResponse(project))
    /\ UNCHANGED mergedVideos
    /\ UNCHANGED <<users, nextUserID, projects, nextProjectID, tokens, req,
                   awaiting>>

GetManimProjectByID(h, param) ==
    LET auth == AuthMiddleware(h)
        claims == auth.claims
        parsed == UuidParse(param)
        project == FindManimProjectByID(parsed.id)
    IN
    /\ IF ~auth.ok
       THEN resp' = Response("get", 401, NoClaims, param.id, NoData)
       ELSE IF parsed.err
       THEN resp' = Response("get", 400, claims, param.id, NoData)
       ELSE IF project = NoRow
       THEN resp' = Response("get", 404, claims, param.id, NoData)
       ELSE IF project.user_id # claims.UserID
       THEN resp' = Response("get", 403, claims, param.id, NoData)
       ELSE resp' = Response("get", 200, claims, param.id,
                             newProjectResponse(project))
    /\ UNCHANGED mergedVideos
    /\ UNCHANGED <<users, nextUserID, projects, nextProjectID, tokens, req,
                   awaiting>>

\* PUT /api/projects/:id
UpdateManimProject_SelfConflict(h, param, name, description, prompt) ==
    LET auth == AuthMiddleware(h)
        claims == auth.claims
        parsed == UuidParse(param)
        existingProject == FindManimProjectByID(parsed.id)
        newName == TrimSpace(name.v)
        conflict == /\ name.set
                    /\ FindManimProjectByNameAndUserID(newName, claims.UserID)
                          # NoRow
        changed == [existingProject EXCEPT
                      !.name = IF name.set THEN newName ELSE @,
                      !.description = IF description.set
                                      THEN TrimSpace(description.v) ELSE @,
                      !.prompt = IF prompt.set THEN TrimSpace(prompt.v) ELSE @]
        updated == UpdateManimProjectRow(changed)
    IN
    /\ IF ~auth.ok
       THEN /\ resp' = Response("update", 401, NoClaims, param.id, NoData)
            /\ UNCHANGED projects
       ELSE IF parsed.err \/ ~ValidUpdate(name, prompt)
       THEN /\ resp' = Response("update", 400, claims, param.id, NoData)
            /\ UNCHANGED projects
       ELSE IF existingProject = NoRow
       THEN /\ resp' = Response("update", 404, claims, param.id, NoData)
            /\ UNCHANGED projects
       ELSE IF existingProject.user_id # claims.UserID
       THEN /\ resp' = Response("update", 403, claims, param.id, NoData)
            /\ UNCHANGED projects
       ELSE IF conflict
       THEN /\ resp' = Response("update", 409, claims, param.id, NoData)
            /\ UNCHANGED projects
       ELSE IF updated.err = "ErrNoRows"
       THEN /\ resp' = Response("update", 404, claims, param.id, NoData)
            /\ UNCHANGED projects
       ELSE IF updated.err # "nil"
       THEN /\ resp' = Response("update", 500, claims, param.id, NoData)
            /\ UNCHANGED projects
       ELSE /\ projects' = updated.projects
            /\ resp' = Response("update", 200, claims, param.id,
                                newProjectResponse(changed))
    /\ UNCHANGED mergedVideos
    /\ UNCHANGED <<users, nextUserID, nextProjectID, tokens, req, awaiting>>

UpdateManimProject(h, param, name, description, prompt) ==
    LET auth == AuthMiddleware(h)
        claims == auth.claims
        parsed == UuidParse(param)
        existingProject == FindManimProjectByID(parsed.id)
        newName == TrimSpace(name.v)
        conflictProject == FindManimProjectByNameAndUserID(newName, claims.UserID)
        conflict == /\ name.set
                    /\ newName # existingProject.name
                    /\ conflictProject # NoRow
                    /\ conflictProject.id # existingProject.id
        changed == [existingProject EXCEPT
                      !.name = IF name.set THEN newName ELSE @,
                      !.description = IF description.set
                                      THEN TrimSpace(description.v) ELSE @,
                      !.prompt = IF prompt.set THEN TrimSpace(prompt.v) ELSE @]
        updated == UpdateManimProjectRow(changed)
    IN
    /\ IF ~auth.ok
       THEN /\ resp' = Response("update", 401, NoClaims, param.id, NoData)
            /\ UNCHANGED projects
       ELSE IF parsed.err \/ ~ValidUpdate(name, prompt)
       THEN /\ resp' = Response("update", 400, claims, param.id, NoData)
            /\ UNCHANGED projects
       ELSE IF existingProject = NoRow
       THEN /\ resp' = Response("update", 404, claims, param.id, NoData)
            /\ UNCHANGED projects
       ELSE IF existingProject.user_id # claims.UserID
       THEN /\ resp' = Response("update", 403, claims, param.id, NoData)
            /\ UNCHANGED projects
       ELSE IF conflict
       THEN /\ resp' = Response("update", 409, claims, param.id, NoData)
            /\ UNCHANGED projects
       ELSE IF updated.err = "ErrNoRows"
       THEN /\ resp' = Response("update", 404, claims, param.id, NoData)
            /\ UNCHANGED projects
       ELSE IF updated.err # "nil"
       THEN /\ resp' = Response("update", 500, claims, param.id, NoData)
            /\ UNCHANGED projects
       ELSE /\ projects' = updated.projects
            /\ resp' = Response("update", 200, claims, param.id,
                                newProjectResponse(changed))
    /\ UNCHANGED mergedVideos
    /\ UNCHANGED <<users, nextUserID, nextProjectID, tokens, req, awaiting>>

\* DELETE /api/projects/:id
DeleteManimProject(h, param) ==
    LET auth == AuthMiddleware(h)
        claims == auth.claims
        parsed == UuidParse(param)
        deleted == DeleteManimProjectRow(parsed.id, claims.UserID)
    IN
    /\ IF ~auth.ok
       THEN /\ resp' = Response("delete", 401, NoClaims, param.id, NoData)
            /\ UNCHANGED projects
       ELSE IF parsed.err
       THEN /\ resp' = Response("delete", 400, claims, param.id, NoData)
            /\ UNCHANGED projects
       ELSE IF deleted.err = "ErrNoRows"
       THEN /\ resp' = Response("delete", 404, claims, param.id, NoData)
            /\ UNCHANGED projects
       ELSE /\ projects' = deleted.projects
            /\ resp' = Response("delete", 204, claims, param.id, NoData)
    /\ awaiting' = {i \in awaiting : \E p \in projects' : p.id = i}
    /\ UNCHANGED mergedVideos
    /\ UNCHANGED <<users, nextUserID, nextProjectID, tokens, req>>

\* ------------------------------------------------ generate-render trigger
Digit(d) ==
    CASE d = 0 -> "0" [] d = 1 -> "1" [] d = 2 -> "2" [] d = 3 -> "3"
      [] d = 4 -> "4" [] d = 5 -> "5" [] d = 6 -> "6" [] d = 7 -> "7"
      [] d = 8 -> "8" [] d = 9 -> "9"

\* fmt.Sprintf("%d", n), n >= 0
RECURSIVE Itoa(_)
Itoa(n) == IF n < 10 THEN Digit(n) ELSE Itoa(n \div 10) \o Digit(n % 10)

\* strings.TrimSpace(project.Prompt) == ""
PromptIsEmpty_Never(project) == FALSE

PromptIsEmpty(project) == TrimSpace(project.prompt) = <<>>

\* resp.StatusCode != http.StatusAccepted
IsAccepted_Any2xx(code) == code \in 200..299

IsAccepted(code) == code = StatusAccepted

\* The request's own copy of the row, written back whole by every status
\* write of the handler.
StatusWrite(project, status) ==
    UpdateManimProjectRow([project EXCEPT !.render_status = status])

Release(s) == [req EXCEPT ![s] = IdleSlot]

\* What a step of the handler after the prompt check did: the stage, the
\* outcome of its outbound call (1 success, 0 error, or the render
\* service's status code), the status it wrote and the error of that write.
Stage(stage, outcome, status, writeErr) ==
    [kind |-> "stage", stage |-> stage, outcome |-> outcome,
     status |-> status, writeErr |-> writeErr]

\* POST /api/projects/:id/generate-render, up to the prompt check
TriggerBegin(s, h, param) ==
    LET auth == AuthMiddleware(h)
        claims == auth.claims
        parsed == UuidParse(param)
        project == FindManimProjectByID(parsed.id)
    IN
    /\ IF ~auth.ok
       THEN /\ resp' = Response("trigger", 401, NoClaims, param.id, NoData)
            /\ UNCHANGED req
       ELSE IF parsed.err
       THEN /\ resp' = Response("trigger", 400, claims, param.id, NoData)
            /\ UNCHANGED req
       ELSE IF project = NoRow
       THEN /\ resp' = Response("trigger", 404, claims, param.id, NoData)
            /\ UNCHANGED req
       ELSE IF project.user_id # claims.UserID
       THEN /\ resp' = Response("trigger", 403, claims, param.id, NoData)
            /\ UNCHANGED req
       ELSE IF PromptIsEmpty(project)
       THEN /\ resp' = Response("trigger", 400, claims, param.id, NoData)
            /\ UNCHANGED req
       ELSE /\ req[s].pc = "idle"
            /\ req' = [req EXCEPT ![s] =
                          [pc |-> "mark", claims |-> claims, project |-> project,
                           markErr |-> "none", llmCalls |-> 0, llmOk |-> FALSE,
                           renderCalls |-> 0, callbackSince |-> FALSE]]
            /\ resp' = Response("trigger", 0, claims, param.id, NoData)
    /\ UNCHANGED mergedVideos
    /\ UNCHANGED <<users, nextUserID, projects, nextProjectID, tokens, awaiting>>

\* project.RenderStatus = "generating"; best-effort write
TriggerMarkGenerating(s) ==
    LET r == req[s]
        written == StatusWrite(r.project, "generating")
    IN
    /\ r.pc = "mark"
    /\ projects' = written.projects
    /\ req' = [req EXCEPT ![s] =
                  [r EXCEPT !.pc = "llm",
                            !.project.render_status = "generating",
                            !.markErr = written.err,
                            !.callbackSince = FALSE]]
    /\ resp' = Response("trigger", 0, r.claims, r.project.id,
                        Stage("mark", 1, "generating", written.err))
    /\ UNCHANGED mergedVideos
    /\ UNCHANGED <<users, nextUserID, nextProjectID, tokens, awaiting>>

\* the handler's failure exit: best-effort status write, then 500
TriggerFail(s, stage, outcome, status) ==
    LET r == req[s]
        written == StatusWrite(r.project, status)
    IN  /\ projects' = written.projects
        /\ resp' = Response("trigger", 500, r.claims, r.project.id,
                            Stage(stage, outcome, status, written.err))
        /\ req' = Release(s)
        /\ UNCHANGED awaiting

\* h.LLMClient.GenerateManimCode(project.Prompt) returns
TriggerLLM_Retry(s, ok) ==
    LET r == req[s]
    IN
    /\ r.pc = "llm"
    /\ req' = [req EXCEPT ![s] =
                  [r EXCEPT !.pc = IF ok THEN "send" ELSE "llm",
                            !.llmCalls = @ + 1, !.llmOk = ok]]
    /\ resp' = Response("trigger", 0, r.claims, r.project.id,
                        Stage("llm", IF ok THEN 1 ELSE 0, "", "none"))
    /\ UNCHANGED mergedVideos
    /\ UNCHANGED <<users, nextUserID, projects, nextProjectID, tokens, awaiting>>

TriggerLLM(s, ok) ==
    LET r == req[s]
    IN
    /\ r.pc = "llm"
    /\ IF ok
       THEN /\ req' = [req EXCEPT ![s] =
                          [r EXCEPT !.pc = "send", !.llmCalls = @ + 1,
                                    !.llmOk = TRUE]]
            /\ resp' = Response("trigger", 0, r.claims, r.project.id,
                                Stage("llm", 1, "", "none"))
            /\ UNCHANGED <<projects, awaiting>>
       ELSE TriggerFail(s, "llm", 0, "failed: code_gen_error")
    /\ UNCHANGED mergedVideos
    /\ UNCHANGED <<users, nextUserID, nextProjectID, tokens>>

\* http.NewRequest, then client.Do sends the POST to the render service
TriggerSend(s, built) ==
    LET r == req[s]
    IN
    /\ r.pc = "send"
    /\ IF built
       THEN /\ req' = [req EXCEPT ![s] =
                          [r EXCEPT !.pc = "wait", !.renderCalls = @ + 1]]
            /\ resp' = Response("trigger", 0, r.claims, r.project.id,
                                Stage("send", 1, "", "none"))
            /\ UNCHANGED <<projects, awaiting>>
       ELSE TriggerFail(s, "send", 0, "failed: renderer_req_error")
    /\ UNCHANGED mergedVideos
    /\ UNCHANGED <<users, nextUserID, nextProjectID, tokens>>

\* client.Do returns: a transport error (code 0) or the service's status code
TriggerReturn_StoresInitiated(s, code) ==
    LET r == req[s]
        written == StatusWrite(r.project, "rendering_initiated")
    IN
    /\ r.pc = "wait"
    /\ IF code = 0
       THEN TriggerFail(s, "return", code, "failed: renderer_comm_error")
       ELSE IF ~IsAccepted(code)
       THEN TriggerFail(s, "return", code,
                        "failed: renderer_status_" \o Itoa(code))
       ELSE /\ resp' = Response("trigger", 202, r.claims, r.project.id,
                                Stage("return", code, "rendering_initiated",
                                      written.err))
            /\ projects' = written.projects
            /\ awaiting' = IF /\ r.markErr = "nil" /\ ~r.callbackSince
                              /\ r.project.id \in ProjectIDs
                           THEN awaiting \cup {r.project.id} ELSE awaiting
            /\ req' = Release(s)
    /\ UNCHANGED mergedVideos
    /\ UNCHANGED <<users, nextUserID, nextProjectID, tokens>>

TriggerReturn(s, code) ==
    LET r == req[s]
    IN
    /\ r.pc = "wait"
    /\ IF code = 0
       THEN TriggerFail(s, "return", code, "failed: renderer_comm_error")
       ELSE IF ~IsAccepted(code)
       THEN TriggerFail(s, "return", code,
                        "failed: renderer_status_" \o Itoa(code))
       ELSE /\ resp' = Response("trigger", 202, r.claims, r.project.id,
                                Stage("return", code, "", "none"))
            /\ awaiting' = IF /\ r.markErr = "nil" /\ ~r.callbackSince
                              /\ r.project.id \in ProjectIDs
                           THEN awaiting \cup {r.project.id} ELSE awaiting
            /\ req' = Release(s)
            /\ UNCHANGED projects
    /\ UNCHANGED mergedVideos
    /\ UNCHANGED <<users, nextUserID, nextProjectID, tokens>>

\* ------------------------------------------------------- render callback
\* the payload a callback response answers
PayloadData(status, url) == [kind |-> "payload", status |-> status, url |-> url]

\* POST /api/projects/render-callback (no authentication)
HandleRenderCallback(wellFormed, param, status, url) ==
    LET parsed == UuidParse(param)
        project == FindManimProjectByID(parsed.id)
        video == IF status = "completed"
                 THEN IF url # "" /\ url # "N/A" THEN ValidString(url)
                      ELSE NullString
                 ELSE NullString
        changed == [project EXCEPT !.render_status = status,
                                   !.video_url = video]
        updated == UpdateManimProjectRow(changed)
        data == PayloadData(status, url)
    IN
    /\ IF ~wellFormed
       THEN /\ resp' = Response("callback", 400, NoClaims, param.id, NoData)
            /\ UNCHANGED <<projects, req, awaiting>>
       ELSE IF parsed.err
       THEN /\ resp' = Response("callback", 400, NoClaims, param.id, data)
            /\ UNCHANGED <<projects, req, awaiting>>
       ELSE IF project = NoRow
       THEN /\ resp' = Response("callback", 404, NoClaims, param.id, data)
            /\ UNCHANGED <<projects, req, awaiting>>
       ELSE IF updated.err # "nil"
       THEN /\ resp' = Response("callback", 500, NoClaims, param.id, data)
            /\ UNCHANGED <<projects, req, awaiting>>
       ELSE /\ projects' = updated.projects
            /\ resp' = Response("callback", 200, NoClaims, param.id, data)
            /\ awaiting' = awaiting \ {parsed.id}
            /\ req' = [s \in Slots |->
                          IF req[s].pc \in {"llm", "send", "wait"}
                             /\ req[s].project.id = parsed.id
                          THEN [req[s] EXCEPT !.callbackSince = TRUE]
                          ELSE req[s]]
    /\ UNCHANGED mergedVideos
    /\ UNCHANGED <<users, nextUserID, nextProjectID, tokens>>

\* ------------------------------------- create and update, step by step
\* A create or an update reads the store for its checks and writes it in a
\* later query; other requests may run in between.

\* POST /api/projects, up to the INSERT
CreateBegin(s, h, name, description, prompt, cap) ==
    LET auth == AuthMiddleware(h)
        claims == auth.claims
        existingProject == FindManimProjectByNameAndUserID(name, claims.UserID)
        project == [user_id |-> claims.UserID, name |-> TrimSpace(name),
                    description |-> TrimSpace(description),
                    prompt |-> TrimSpace(prompt), render_status |-> "pending",
                    video_url |-> NullString]
    IN
    /\ IF ~auth.ok
       THEN /\ resp' = Response("create", 401, NoClaims, 0, NoData)
            /\ UNCHANGED req
       ELSE IF ~ValidCreate(name, prompt)
       THEN /\ resp' = Response("create", 400, claims, 0, NoData)
            /\ UNCHANGED req
       ELSE IF existingProject # NoRow
       THEN /\ resp' = Response("create", 409, claims, 0, NoData)
            /\ UNCHANGED req
       ELSE /\ req[s].pc = "idle"
            /\ nextProjectID < cap
            /\ req' = [req EXCEPT ![s] =
                          [pc |-> "insert", claims |-> claims,
                           project |-> project]]
            /\ resp' = Response("create", 0, claims, 0, NoData)
    /\ UNCHANGED mergedVideos
    /\ UNCHANGED <<users, nextUserID, projects, nextProjectID, tokens, awaiting>>

\* queries.CreateManimProject(project) and the response
CreateInsert(s) ==
    LET r == req[s]
        created == CreateManimProjectRow(r.project)
    IN
    /\ r.pc = "insert"
    /\ IF created.err
       THEN /\ resp' = Response("create", 500, r.claims, 0, NoData)
            /\ UNCHANGED <<projects, nextProjectID>>
       ELSE /\ projects' = created.projects
            /\ nextProjectID' = nextProjectID + 1
            /\ resp' = Response("create", 201, r.claims, created.row.id,
                                newProjectResponse(created.row))
    /\ req' = Release(s)
    /\ UNCHANGED mergedVideos
    /\ UNCHANGED <<users, nextUserID, tokens, awaiting>>

\* PUT /api/projects/:id, up to the UPDATE
UpdateBegin(s, h, param, name, description, prompt) ==
    LET auth == AuthMiddleware(h)
        claims == auth.claims
        parsed == UuidParse(param)
        existingProject == FindManimProjectByID(parsed.id)
        newName == TrimSpace(name.v)
        conflictProject == FindManimProjectByNameAndUserID(newName, claims.UserID)
        conflict == /\ name.set
                    /\ newName # existingProject.name
                    /\ conflictProject # NoRow
                    /\ conflictProject.id # existingProject.id
        changed == [existingProject EXCEPT
                      !.name = IF name.set THEN newName ELSE @,
                      !.description = IF description.set
                                      THEN TrimSpace(description.v) ELSE @,
                      !.prompt = IF prompt.set THEN TrimSpace(prompt.v) ELSE @]
    IN
    /\ IF ~auth.ok
       THEN /\ resp' = Response("update", 401, NoClaims, param.id, NoData)
            /\ UNCHANGED req
       ELSE IF parsed.err \/ ~ValidUpdate(name, prompt)
       THEN /\ resp' = Response("update", 400, claims, param.id, NoData)
            /\ UNCHANGED req
       ELSE IF existingProject = NoRow
       THEN /\ resp' = Response("update", 404, claims, param.id, NoData)
            /\ UNCHANGED req
       ELSE IF existingProject.user_id # claims.UserID
       THEN /\ resp' = Response("update", 403, claims, param.id, NoData)
            /\ UNCHANGED req
       ELSE IF conflict
       THEN /\ resp' = Response("update", 409, claims, param.id, NoData)
            /\ UNCHANGED req
       ELSE /\ req[s].pc = "idle"
            /\ req' = [req EXCEPT ![s] =
                          [pc |-> "write", claims |-> claims, param |-> param,
                           read |-> existingProject, project |-> changed]]
            /\ resp' = Response("update", 0, claims, param.id, NoData)
    /\ UNCHANGED mergedVideos
    /\ UNCHANGED <<users, nextUserID, projects, nextProjectID, tokens, awaiting>>

\* queries.UpdateManimProject(existingProject) and the response
UpdateWrite_StaleRejected(s) ==
    LET r == req[s]
        updated == UpdateManimProjectRow(r.project)
    IN
    /\ r.pc = "write"
    /\ IF updated.err = "ErrNoRows"
       THEN /\ resp' = Response("update", 404, r.claims, r.param.id, NoData)
            /\ UNCHANGED projects
       ELSE IF updated.err # "nil"
       THEN /\ resp' = Response("update", 500, r.claims, r.param.id, NoData)
            /\ UNCHANGED projects
       ELSE IF FindManimProjectByID(r.project.id) # r.read
       THEN /\ resp' = Response("update", 409, r.claims, r.param.id, NoData)
            /\ UNCHANGED projects
       ELSE /\ projects' = updated.projects
            /\ resp' = Response("update", 200, r.claims, r.param.id,
                                newProjectResponse(r.project))
    /\ req' = Release(s)
    /\ UNCHANGED mergedVideos
    /\ UNCHANGED <<users, nextUserID, nextProjectID, tokens, awaiting>>

UpdateWrite(s) ==
    LET r == req[s]
        updated == UpdateManimProjectRow(r.project)
    IN
    /\ r.pc = "write"
    /\ IF updated.err = "ErrNoRows"
       THEN /\ resp' = Response("update", 404, r.claims, r.param.id, NoData)
            /\ UNCHANGED projects
       ELSE IF updated.err # "nil"
       THEN /\ resp' = Response("update", 500, r.claims, r.param.id, NoData)
            /\ UNCHANGED projects
       ELSE /\ projects' = updated.projects
            /\ resp' = Response("update", 200, r.claims, r.param.id,
                                newProjectResponse(r.project))
    /\ req' = Release(s)
    /\ UNCHANGED mergedVideos
    /\ UNCHANGED <<users, nextUserID, nextProjectID, tokens, awaiting>>

\* POST /api/projects/render-callback, up to the UPDATE
CallbackBegin(s, wellFormed, param, status, url) ==
    LET parsed == UuidParse(param)
        project == FindManimProjectByID(parsed.id)
        video == IF status = "completed"
                 THEN IF url # "" /\ url # "N/A" THEN ValidString(url)
                      ELSE NullString
                 ELSE NullString
        changed == [project EXCEPT !.render_status = status,
                                   !.video_url = video]
        data == PayloadData(status, url)
    IN
    /\ IF ~wellFormed
       THEN /\ resp' = Response("callback", 400, NoClaims, param.id, NoData)
            /\ UNCHANGED req
       ELSE IF parsed.err
       THEN /\ resp' = Response("callback", 400, NoClaims, param.id, data)
            /\ UNCHANGED req
       ELSE IF project = NoRow
       THEN /\ resp' = Response("callback", 404, NoClaims, param.id, data)
            /\ UNCHANGED req
       ELSE /\ req[s].pc = "idle"
            /\ req' = [req EXCEPT ![s] =
                          [pc |-> "record", param |-> param, data |-> data,
                           read |-> project, project |-> changed]]
            /\ resp' = Response("callback", 0, NoClaims, param.id, data)
    /\ UNCHANGED mergedVideos
    /\ UNCHANGED <<users, nextUserID, projects, nextProjectID, tokens, awaiting>>

\* queries.UpdateManimProject(project) and the response
CallbackWrite(s) ==
    LET r == req[s]
        updated == UpdateManimProjectRow(r.project)
    IN
    /\ r.pc = "record"
    /\ IF updated.err # "nil"
       THEN /\ resp' = Response("callback", 500, NoClaims, r.param.id, r.data)
            /\ req' = Release(s)
            /\ UNCHANGED <<projects, awaiting>>
       ELSE /\ projects' = updated.projects
            /\ resp' = Response("callback", 200, NoClaims, r.param.id, r.data)
            /\ awaiting' = awaiting \ {r.project.id}
            /\ req' = [t \in Slots |->
                          IF t = s THEN IdleSlot
                          ELSE IF req[t].pc \in {"llm", "send", "wait"}
                                  /\ req[t].project.id = r.project.id
                          THEN [req[t] EXCEPT !.callbackSince = TRUE]
                          ELSE req[t]]
    /\ UNCHANGED mergedVideos
    /\ UNCHANGED <<users, nextUserID, nextProjectID, tokens>>

\* ----------------------------------------------------------- video merge
T_slash == <<"/">>
T_r2in == <<"b", ".", "x">>
T_other == <<"o", ".", "r", "g">>
T_path == <<"/", "m">>

\* os.Getenv("PYTHON_R2_INTERNAL_DOMAIN"), os.Getenv("FRONTEND_R2_PUBLIC_DOMAIN")
PythonR2InternalDomain == <<"B", ".", "x", "/">>
FrontendR2PublicDomain == <<"c", "d", "n">>

\* strings.TrimSuffix
TrimSuffix(t, suffix) ==
    IF Len(t) >= Len(suffix)
       /\ SubSeq(t, Len(t) - Len(suffix) + 1, Len(t)) = suffix
    THEN SubSeq(t, 1, Len(t) - Len(suffix))
    ELSE t

\* strings.EqualFold
StringsEqualFold(a, b) == ToLower(a) = ToLower(b)

\* A merged_video_url as url.Parse sees it: scheme and host, path, and
\* whether it parses at all
MergedURL(origin, path, parses) ==
    [origin |-> origin, path |-> path, parses |-> parses]
RawURL(u) == u.origin \o u.path

\* the URL handed to the frontend and recorded
FinalURLForFrontend(u) ==
    IF RawURL(u) # <<>> /\ PythonR2InternalDomain # <<>>
       /\ FrontendR2PublicDomain # <<>> /\ u.parses
       /\ StringsEqualFold(u.origin, TrimSuffix(PythonR2InternalDomain, T_slash))
    THEN TrimSuffix(FrontendR2PublicDomain, T_slash) \o u.path
    ELSE RawURL(u)

\* INSERT INTO merged_videos (id, r2_url) ... ON CONFLICT (id) DO UPDATE
UpsertMergedVideo_InsertOnly(id, url) ==
    IF \E m \in mergedVideos : m.id = id THEN mergedVideos
    ELSE mergedVideos \cup {[id |-> id, r2_url |-> url]}

UpsertMergedVideo(id, url) ==
    {m \in mergedVideos : m.id # id} \cup {[id |-> id, r2_url |-> url]}

\* What the render service did with POST /merge_videos
Unreachable == [kind |-> "unreachable"]
Unreadable == [kind |-> "unreadable"]
Answer(code, parsable, id, url) ==
    [kind |-> "answer", code |-> code, parsable |-> parsable, id |-> id,
     url |-> url]

\* what the handler did for the response: the outbound POSTs it made and
\* their outcome, the writes it tried, and the body's id and url
MergeData(posts, up, writes, id, url) ==
    [kind |-> "merge", posts |-> posts, up |-> up, writes |-> writes,
     MergedVideoID |-> id, MergedVideoURL |-> url]

\* POST /api/merge_videos (no authentication)
MergeVideosHandler(wellFormed, ids, configured, up, db) ==
    LET final == FinalURLForFrontend(up.url)
    IN
    /\ IF ~wellFormed \/ Len(ids) = 0
       THEN /\ resp' = Response("merge", 400, NoClaims, 0,
                                MergeData(0, up, 0, "", <<>>))
            /\ UNCHANGED mergedVideos
       ELSE IF ~configured
       THEN /\ resp' = Response("merge", 500, NoClaims, 0,
                                MergeData(0, up, 0, "", <<>>))
            /\ UNCHANGED mergedVideos
       ELSE IF up.kind = "unreachable"
       THEN /\ resp' = Response("merge", StatusBadGateway, NoClaims, 0,
                                MergeData(1, up, 0, "", <<>>))
            /\ UNCHANGED mergedVideos
       ELSE IF up.kind = "unreadable"
       THEN /\ resp' = Response("merge", 500, NoClaims, 0,
                                MergeData(1, up, 0, "", <<>>))
            /\ UNCHANGED mergedVideos
       ELSE IF up.code # StatusOK
       THEN /\ resp' = Response("merge", up.code, NoClaims, 0,
                                MergeData(1, up, 0, "", <<>>))
            /\ UNCHANGED mergedVideos
       ELSE IF ~up.parsable
       THEN /\ resp' = Response("merge", 500, NoClaims, 0,
                                MergeData(1, up, 0, "", <<>>))
            /\ UNCHANGED mergedVideos
       ELSE IF db = "nil"
       THEN /\ resp' = Response("merge", 500, NoClaims, 0,
                                MergeData(1, up, 0, "", <<>>))
            /\ UNCHANGED mergedVideos
       ELSE IF db = "error"
       THEN /\ resp' = Response("merge", 500, NoClaims, 0,
                                MergeData(1, up, 1, "", <<>>))
            /\ UNCHANGED mergedVideos
       ELSE /\ mergedVideos' = UpsertMergedVideo(up.id, final)
            /\ resp' = Response("merge", StatusOK, NoClaims, 0,
                                MergeData(1, up, 1, up.id, final))
    /\ UNCHANGED <<users, nextUserID, projects, nextProjectID, tokens, req,
                   awaiting>>

\* ----------------------------------------------------------- the inputs
IDParams == {IDParam(n) : n \in 1..MaxProjects} \cup {BadParam}
S_long == "upload_failed: the renderer could not store the video"

\* The render lifecycle of one account's project: every outcome of the
\* LLM and of the render service, every shape of callback.
Body(name, description, prompt) ==
    [name |-> name, description |-> description, prompt |-> prompt]

RenderBodies == {Body(Nil, Nil, Ptr(T_sp_prompt)), Body(Nil, Nil, Ptr(T_blank10))}
RenderCodes == {0, 200, 202, 500}
Payload(wellFormed, status, url) ==
    [wellFormed |-> wellFormed, status |-> status, url |-> url]

RenderPayloads ==
    {Payload(TRUE, "completed", u) : u \in {"", "N/A", U_old, U_cdn}}
    \cup {Payload(TRUE, "failed", u) : u \in {"N/A", U_cdn}}
    \cup {Payload(TRUE, S_long, "N/A"), Payload(FALSE, "", "")}

Next ==
    \/ RegisterUser(T_ann, T_A_at_x, T_password, 1)
    \/ LoginUser(T_a_at_x, T_password)
    \/ \E h \in Headers, n \in {T_sp_abc, T_abd}, p \in {T_sp_prompt, T_blank10} :
          CreateManimProject(h, n, <<>>, p, MaxRenderProjects)
    \/ \E h \in Headers : GetUserManimProjects(h)
    \/ \E h \in Headers, i \in IDParams : GetManimProjectByID(h, i)
    \/ \E h \in Headers, i \in IDParams, b \in RenderBodies :
          UpdateManimProject(h, i, b.name, b.description, b.prompt)
    \/ \E h \in Headers, i \in IDParams : DeleteManimProject(h, i)
    \/ \E s \in Slots, h \in Headers, i \in IDParams : TriggerBegin(s, h, i)
    \/ \E s \in Slots : TriggerMarkGenerating(s)
    \/ \E s \in Slots, ok \in BOOLEAN : TriggerLLM(s, ok)
    \/ \E s \in Slots, built \in BOOLEAN : TriggerSend(s, built)
    \/ \E s \in Slots, code \in RenderCodes : TriggerReturn(s, code)
    \/ \E i \in IDParams, c \in RenderPayloads :
          HandleRenderCallback(c.wellFormed, i, c.status, c.url)

Spec == Init /\ [][Next]_vars

\* Two accounts and their projects: who may read, change, delete or render
\* what.  Every code generation fails, so no render is ever requested.
Identities == {<<T_ann, T_A_at_x>>, <<T_bob, T_b_at_x>>}
AccessNames == {T_abc}

NextAccess ==
    \/ \E id \in Identities : RegisterUser(id[1], id[2], T_password, 1)
    \/ \E id \in Identities : LoginUser(id[2], T_password)
    \/ \E h \in Headers, n \in AccessNames :
          CreateManimProject(h, n, <<>>, T_sp_prompt, MaxProjects)
    \/ \E h \in Headers : GetUserManimProjects(h)
    \/ \E h \in Headers, i \in IDParams : GetManimProjectByID(h, i)
    \/ \E h \in Headers, i \in IDParams :
          UpdateManimProject(h, i, Nil, Ptr(T_desc), Nil)
    \/ \E h \in Headers, i \in IDParams : DeleteManimProject(h, i)
    \/ \E s \in Slots, h \in Headers, i \in IDParams : TriggerBegin(s, h, i)
    \/ \E s \in Slots : TriggerMarkGenerating(s)
    \/ \E s \in Slots : TriggerLLM(s, FALSE)

SpecAccess == Init /\ [][NextAccess]_vars

\* Registration and login with every mix of user name, letter case of the
\* email and password.
RegisterUsernames == {T_ann, T_bob, T_ab}
RegisterEmails == {T_a_at_x, T_A_at_x, T_b_at_x, T_noemail}
RegisterPasswords == {T_password, T_wrongpass, T_short}
LoginEmails == {T_a_at_x, T_A_at_x, T_b_at_x}
LoginPasswords == {T_password, T_wrongpass}

NextAuth ==
    \/ \E u \in RegisterUsernames, e \in RegisterEmails, p \in RegisterPasswords :
          RegisterUser(u, e, p, 1)
    \/ \E e \in LoginEmails, p \in LoginPasswords : LoginUser(e, p)
    \/ \E h \in Headers \cup BadHeaders : DeleteUser(h)

SpecAuth == Init /\ [][NextAuth]_vars

\* Creates and updates of one account's projects, one of them at a time
\* taken in two steps (its checks, then its write) with whole requests of
\* the others in between: two requests' checks are reads, so this covers
\* every interleaving of two requests.
RaceNames == {T_sp_abc, T_abd, T_blank3}
RaceRenames == {Ptr(T_sp_abc), Ptr(T_xyz), Ptr(T_blank3)}
InFlightCreates == Cardinality({s \in Slots : req[s].pc = "insert"})

NextRace ==
    \/ RegisterUser(T_ann, T_a_at_x, T_password, 1)
    \/ LoginUser(T_a_at_x, T_password)
    \/ \E h \in Headers, n \in RaceNames :
          CreateManimProject(h, n, <<>>, T_sp_prompt,
                             MaxProjects - InFlightCreates)
    \/ \E s \in Slots, h \in Headers, n \in RaceNames :
          CreateBegin(s, h, n, <<>>, T_sp_prompt, MaxProjects + 1)
    \/ \E s \in Slots : CreateInsert(s)
    \/ \E h \in Headers, i \in IDParams, n \in RaceRenames :
          UpdateManimProject(h, i, n, Nil, Nil)
    \/ \E s \in Slots, h \in Headers, i \in IDParams, n \in RaceRenames :
          UpdateBegin(s, h, i, n, Nil, Nil)
    \/ \E s \in Slots : UpdateWrite(s)

SpecRace == Init /\ [][NextRace]_vars

\* One account's projects under partial updates: every mix of supplied and
\* omitted fields, on projects that a render callback may have completed.
UpdateBodies ==
    {Body(n, Nil, Nil) :
        n \in {Nil, Ptr(T_sp_abc), Ptr(T_abd), Ptr(T_xyz), Ptr(T_blank3)}}
    \cup {Body(Nil, Ptr(T_desc), Nil), Body(Nil, Nil, Ptr(T_blank10)),
          Body(Ptr(T_xyz), Ptr(T_desc), Nil),
          Body(Ptr(T_sp_abc), Ptr(T_desc), Ptr(T_blank10))}

NextUpdate ==
    \/ RegisterUser(T_ann, T_a_at_x, T_password, 1)
    \/ LoginUser(T_a_at_x, T_password)
    \/ \E h \in Headers, n \in {T_sp_abc, T_abd} :
          CreateManimProject(h, n, <<>>, T_sp_prompt, MaxProjects)
    \/ \E h \in Headers, i \in IDParams, b \in UpdateBodies :
          UpdateManimProject(h, i, b.name, b.description, b.prompt)
    \/ \E i \in IDParams : HandleRenderCallback(TRUE, i, "completed", U_cdn)

SpecUpdate == Init /\ [][NextUpdate]_vars

\* Two accounts, their projects, and the deletion of an account: what the
\* routes that look a project up answer afterwards.
NextCascade ==
    \/ \E id \in Identities : RegisterUser(id[1], id[2], T_password, 1)
    \/ \E id \in Identities : LoginUser(id[2], T_password)
    \/ \E h \in Headers : DeleteUser(h)
    \/ \E h \in Headers, n \in AccessNames :
          CreateManimProject(h, n, <<>>, T_sp_prompt, MaxProjects)
    \/ \E h \in Headers, i \in IDParams : GetManimProjectByID(h, i)
    \/ \E h \in Headers, i \in IDParams :
          UpdateManimProject(h, i, Nil, Nil, Nil)
    \/ \E h \in Headers, i \in IDParams : DeleteManimProject(h, i)
    \/ \E s \in Slots, h \in Headers, i \in IDParams : TriggerBegin(s, h, i)
    \/ \E s \in Slots : TriggerMarkGenerating(s)
    \/ \E s \in Slots : TriggerLLM(s, FALSE)
    \/ \E i \in IDParams : HandleRenderCallback(TRUE, i, "completed", U_cdn)

SpecCascade == Init /\ [][NextCascade]_vars

\* One account and every route of the protected group, called with the
\* headers the middleware accepts and with those it rejects.
Rejected == BadHeaders \cup MalformedHeaders
GuardHeaders == Headers \cup Rejected

NextGuard ==
    \/ RegisterUser(T_ann, T_a_at_x, T_password, 1)
    \/ LoginUser(T_a_at_x, T_password)
    \/ \E h \in GuardHeaders : GetProfile(h)
    \/ \E h \in GuardHeaders : DeleteUser(h)
    \/ \E h \in GuardHeaders, n \in AccessNames :
          CreateManimProject(h, n, <<>>, T_sp_prompt, MaxRenderProjects)
    \/ \E h \in GuardHeaders : GetUserManimProjects(h)
    \/ \E h \in GuardHeaders, i \in IDParams : GetManimProjectByID(h, i)
    \/ \E h \in GuardHeaders, i \in IDParams :
          UpdateManimProject(h, i, Nil, Ptr(T_desc), Nil)
    \/ \E h \in GuardHeaders, i \in IDParams : DeleteManimProject(h, i)
    \/ \E s \in Slots, h \in GuardHeaders, i \in IDParams :
          TriggerBegin(s, h, i)
    \/ \E s \in Slots : TriggerMarkGenerating(s)
    \/ \E s \in Slots : TriggerLLM(s, FALSE)

SpecGuard == Init /\ [][NextGuard]_vars

\* Video merges: every outcome of the render service and of the write.
MergeIDs == {<<>>, <<"v1", "v2">>}
MergedURLs ==
    {MergedURL(T_r2in, T_path, TRUE), MergedURL(T_r2in, T_path, FALSE),
     MergedURL(T_other, T_path, TRUE), MergedURL(<<>>, <<>>, TRUE)}
MergeAnswerCodes == {StatusOK, 201, 404, 500}
MergeUpstreams ==
    {Unreachable, Unreadable}
    \cup {Answer(c, b, i, u) : c \in MergeAnswerCodes, b \in BOOLEAN,
                               i \in {"m1", "m2"}, u \in MergedURLs}
MergeDBOutcomes == {"ok", "error", "nil"}

NextMerge ==
    \E wellFormed \in BOOLEAN, ids \in MergeIDs, configured \in BOOLEAN,
       up \in MergeUpstreams, db \in MergeDBOutcomes :
       MergeVideosHandler(wellFormed, ids, configured, up, db)

SpecMerge == Init /\ [][NextMerge]_vars

\* One project under requests that overlap: an update or a callback taken
\* in two steps (its read, then its write), with whole updates, callbacks
\* and a delete of the project in between.
TheProject == IDParam(1)
OverlapBodies ==
    {Body(Ptr(T_xyz), Nil, Nil), Body(Nil, Ptr(T_desc), Nil),
     Body(Nil, Nil, Ptr(T_blank10))}
OverlapPayloads ==
    {Payload(TRUE, "completed", U_cdn), Payload(TRUE, "failed", "N/A")}

NextOverlap ==
    \/ RegisterUser(T_ann, T_a_at_x, T_password, 1)
    \/ LoginUser(T_a_at_x, T_password)
    \/ \E h \in Headers :
          CreateManimProject(h, T_sp_abc, <<>>, T_sp_prompt, MaxRenderProjects)
    \/ \E h \in Headers, b \in OverlapBodies :
          UpdateManimProject(h, TheProject, b.name, b.description, b.prompt)
    \/ \E s \in Slots, h \in Headers, b \in OverlapBodies :
          UpdateBegin(s, h, TheProject, b.name, b.description, b.prompt)
    \/ \E s \in Slots : UpdateWrite(s)
    \/ \E c \in OverlapPayloads :
          HandleRenderCallback(c.wellFormed, TheProject, c.status, c.url)
    \/ \E s \in Slots, c \in OverlapPayloads :
          CallbackBegin(s, c.wellFormed, TheProject, c.status, c.url)
    \/ \E s \in Slots : CallbackWrite(s)
    \/ \E h \in Headers : DeleteManimProject(h, TheProject)
    \/ \E s \in Slots, h \in Headers : TriggerBegin(s, h, TheProject)
    \/ \E s \in Slots : TriggerMarkGenerating(s)
    \/ \E s \in Slots : TriggerLLM(s, FALSE)

SpecOverlap == Init /\ [][NextOverlap]_vars

\* One account creating projects whose names differ only by surrounding
\* white space, and deleting them.
CreateNames == {T_abc, T_sp_abc, T_sp_ab, T_abd}

NextNames ==
    \/ RegisterUser(T_ann, T_a_at_x, T_password, 1)
    \/ LoginUser(T_a_at_x, T_password)
    \/ \E h \in Headers \cup BadHeaders, n \in CreateNames :
          CreateManimProject(h, n, <<>>, T_sp_prompt, MaxProjects)
    \/ \E h \in Headers : GetUserManimProjects(h)
    \/ \E h \in Headers, i \in IDParams : DeleteManimProject(h, i)

SpecNames == Init /\ [][NextNames]_vars

\* One project's generate-render requests under the scheduling the code
\* gives them: the handler's own steps are taken when enabled, and client.Do
\* returns because its http.Client has a 10 s Timeout. The LLM call runs
\* under context.Background(), with no deadline, so nothing makes it return.
NextLive ==
    \/ RegisterUser(T_ann, T_a_at_x, T_password, 1)
    \/ LoginUser(T_a_at_x, T_password)
    \/ \E h \in Headers :
          CreateManimProject(h, T_sp_abc, <<>>, T_sp_prompt, MaxRenderProjects)
    \/ \E s \in Slots, h \in Headers : TriggerBegin(s, h, TheProject)
    \/ \E s \in Slots : TriggerMarkGenerating(s)
    \/ \E s \in Slots, ok \in BOOLEAN : TriggerLLM(s, ok)
    \/ \E s \in Slots, built \in BOOLEAN : TriggerSend(s, built)
    \/ \E s \in Slots, code \in RenderCodes : TriggerReturn(s, code)
    \/ \E c \in OverlapPayloads :
          HandleRenderCallback(c.wellFormed, TheProject, c.status, c.url)

SpecLive ==
    /\ Init /\ [][NextLive]_vars
    /\ WF_vars(\E s \in Slots : TriggerMarkGenerating(s))
    /\ WF_vars(\E s \in Slots, built \in BOOLEAN : TriggerSend(s, built))
    /\ WF_vars(\E s \in Slots, code \in RenderCodes : TriggerReturn(s, code))

\* ============================================================ properties
\* Helpers of the properties below: the row of a table with a given id,
\* the project a response is about, and tests on texts and statuses.
HasRow(rows, pid) == \E p \in rows : p.id = pid
RowIn(rows, pid) == CHOOSE p \in rows : p.id = pid
OwnedByOther(r) == \E p \in projects : p.id = r.pid /\ p.user_id # r.caller
OwnedByCaller(r) == \E p \in projects : p.id = r.pid /\ p.user_id = r.caller
IsBlank(t) == \A i \in 1..Len(t) : t[i] \in Space
HasFailedShape(status) ==
    Len(status) > 8 /\ SubSeq(status, 1, 8) = "failed: "
EqualFold(a, b) ==
    Len(a) = Len(b) /\ \A i \in 1..Len(a) : LowerOf(a[i]) = LowerOf(b[i])
ProjectOps == {"list", "get", "update", "delete", "trigger"}

\* ---- C1
C1_StepIsolated ==
    LET r == resp'
    IN
    /\ r.op \in ProjectOps =>
          /\ \A p \in projects : p.user_id # r.caller => p \in projects'
          /\ r.data.kind = "project" => r.data.UserID = r.caller
          /\ r.data.kind = "list" =>
                LET items == r.data.items
                    own == {p \in projects : p.user_id = r.caller}
                IN  /\ Len(items) = Cardinality(own)
                    /\ {items[i].ID : i \in 1..Len(items)} = {p.id : p \in own}
                    /\ \A i \in 1..Len(items) : items[i].UserID = r.caller
    /\ \A s \in Slots :
          req'[s].pc # "idle" =>
             /\ req'[s].claims.UserID = req'[s].project.user_id
             /\ \A p \in projects' :
                   p.id = req'[s].project.id => p.user_id = req'[s].claims.UserID
    /\ r.op = "trigger" /\ r.data.kind = "stage" =>
          \A p \in projects : p.id = r.pid => p.user_id = r.caller

\* C1: no request made with one user's token (list, get, update, delete,
\* generate-render) returns the contents of, changes, deletes or starts an
\* LLM/render call for a project owned by another user, and the list
\* returns exactly the rows whose owner is the caller.
C1_Isolation == [][C1_StepIsolated]_vars

\* a user was refused the update of another user's project, which is
\* still in the store
C1_Witness ==
    /\ resp.op = "update" /\ resp.code = 403 /\ resp.caller # 0
    /\ OwnedByOther(resp)

\* ---- C2
C2_StepOriginal ==
    LET r == resp'
    IN  r.op \in {"get", "update", "delete"} /\ r.code \notin {400, 401} =>
           /\ OwnedByOther(r) => r.code = 403 /\ projects' = projects
           /\ r.code = 404 => ~HasRow(projects, r.pid) /\ projects' = projects

\* C2 as stated: get, update and delete each answer 403 when the project
\* exists but belongs to someone else and 404 only when no project has
\* that id; the store is unchanged in both cases.
C2_Original == [][C2_StepOriginal]_vars

C2_StepAmended ==
    LET r == resp'
    IN
    /\ r.op \in {"get", "update"} /\ r.code \notin {400, 401} =>
          /\ OwnedByOther(r) => r.code = 403 /\ projects' = projects
          /\ r.code = 404 => ~HasRow(projects, r.pid) /\ projects' = projects
          /\ ~HasRow(projects, r.pid) => r.code = 404
    /\ r.op = "delete" /\ r.code \notin {400, 401} =>
          /\ r.code # 403
          /\ OwnedByOther(r) => r.code = 404 /\ projects' = projects
          /\ ~HasRow(projects, r.pid) => r.code = 404 /\ projects' = projects
          /\ r.code = 404 => ~OwnedByCaller(r)

\* C2 amended: get and update answer 403 for another user's project and 404
\* only when no project has that id; delete answers 404 in both cases and
\* never 403; the store is unchanged in all of them.
C2_OwnerAndMissing == [][C2_StepAmended]_vars

\* a delete of another user's existing project was answered 404
C2_Witness ==
    /\ resp.op = "delete" /\ resp.code = 404 /\ resp.caller # 0
    /\ OwnedByOther(resp)

\* ---- C3
\* C3: in every reachable state a project whose video_url is non-null has
\* render_status "completed".
C3_UrlOnlyWhenCompleted ==
    \A p \in projects : p.video_url.Valid => p.render_status = "completed"

\* ---- C4
C4_StepResult ==
    LET r == resp'
        s == r.data.status
        u == r.data.url
    IN  r.op = "callback" /\ r.data.kind = "payload" /\ HasRow(projects, r.pid) =>
           /\ HasRow(projects', r.pid)
           /\ RowIn(projects', r.pid).render_status = s
           /\ RowIn(projects', r.pid).video_url =
                 IF s = "completed" /\ u # "" /\ u # "N/A"
                 THEN ValidString(u) ELSE NullString

\* C4: for an existing project and every callback payload (s, u), after
\* the callback render_status = s verbatim; video_url = u if s is
\* "completed" and u is neither empty nor "N/A", and NULL otherwise.
C4_CallbackResult == [][C4_StepResult]_vars

\* ---- C5
C5_StepRejected ==
    LET r == resp'
    IN  r.op = "callback" /\ r.data.kind = "payload" =>
           /\ r.pid = BadParam.id =>
                 r.code = 400 /\ projects' = projects /\ users' = users
           /\ r.pid # BadParam.id /\ ~HasRow(projects, r.pid) =>
                 r.code = 404 /\ projects' = projects /\ users' = users

\* C5: a callback with a malformed project_id is answered 400, one naming
\* no existing project 404; neither creates, changes or deletes a row of
\* the project store or of the user store.
C5_CallbackRejected == [][C5_StepRejected]_vars

\* a callback for a missing project was answered 404 while another
\* project is in the store
C5_Witness ==
    /\ resp.op = "callback" /\ resp.code = 404 /\ resp.data.kind = "payload"
    /\ projects # {}

\* ---- C6
\* the response to the arrival of a generate-render request of the owner
\* of a project whose stored prompt is empty or blank
BlankPromptArrival(r) ==
    /\ r.op = "trigger" /\ r.data = NoData
    /\ \E p \in projects :
          p.id = r.pid /\ p.user_id = r.caller /\ IsBlank(p.prompt)

C6_StepRejected ==
    /\ BlankPromptArrival(resp') =>
          resp'.code = 400 /\ req' = req /\ projects' = projects
    /\ \A s \in Slots :
          req'[s].pc # "idle" => ~IsBlank(req'[s].project.prompt)

\* C6: generate-render invoked by the owner on a project whose stored
\* prompt is empty or only whitespace is rejected, and no request ever
\* reaches the LLM or the render service with such a prompt.
C6_EmptyPromptRejected == [][C6_StepRejected]_vars

\* the owner's generate-render on a project with an empty prompt was
\* answered 400
C6_Witness ==
    /\ resp.op = "trigger" /\ resp.code = 400 /\ resp.data = NoData
    /\ \E p \in projects :
          p.id = resp.pid /\ p.user_id = resp.caller /\ p.prompt = <<>>

\* ---- C7
\* the step of a generate-render request at which an outbound stage failed
FailureCause(r) ==
    /\ r.op = "trigger" /\ r.data.kind = "stage"
    /\ \/ r.data.stage \in {"llm", "send"} /\ r.data.outcome = 0
       \/ r.data.stage = "return" /\ r.data.outcome # StatusAccepted

ExpectedTag(r) ==
    IF r.data.stage = "llm" THEN "failed: code_gen_error"
    ELSE IF r.data.stage = "send" THEN "failed: renderer_req_error"
    ELSE IF r.data.outcome = 0 THEN "failed: renderer_comm_error"
    ELSE "failed: renderer_status_" \o Itoa(r.data.outcome)

StageFailurePersisted ==
    LET r == resp'
    IN  FailureCause(r) =>
           /\ r.code = 500
           /\ r.data.writeErr = "nil" =>
                 /\ HasRow(projects', r.pid)
                 /\ RowIn(projects', r.pid).render_status = ExpectedTag(r)
                 /\ HasFailedShape(RowIn(projects', r.pid).render_status)

C7_StepOriginal ==
    /\ StageFailurePersisted
    /\ BlankPromptArrival(resp') =>
          /\ HasRow(projects', resp'.pid)
          /\ HasFailedShape(RowIn(projects', resp'.pid).render_status)

\* C7 as stated: whenever generate-render fails (empty prompt, LLM error,
\* render request not constructed, render service unreachable, or an
\* answer other than 202) and the status write succeeds, the persisted
\* render_status after the request has the shape "failed: <stage>".
C7_Original == [][C7_StepOriginal]_vars

C7_StepAmended ==
    /\ StageFailurePersisted
    /\ BlankPromptArrival(resp') =>
          resp'.code = 400 /\ projects' = projects

\* C7 amended: an LLM error, a render request that cannot be constructed,
\* an unreachable render service and an answer other than 202 each
\* persist their "failed: <stage>" tag when the write succeeds; an empty
\* prompt is answered 400 and leaves render_status as it was.
C7_FailureTags == [][C7_StepAmended]_vars

\* the render service answered 500 and the tag was written
C7_Witness ==
    /\ resp.op = "trigger" /\ resp.code = 500 /\ resp.data.kind = "stage"
    /\ resp.data.stage = "return" /\ resp.data.writeErr = "nil"
    /\ HasRow(projects, resp.pid)
    /\ RowIn(projects, resp.pid).render_status = "failed: renderer_status_500"

\* ---- C8
NeverInitiated(rows) ==
    \A p \in rows :
       p.render_status \notin {"rendering initiated", "rendering_initiated"}

AcceptedWithoutWrite ==
    LET r == resp'
    IN  /\ r.op = "trigger" /\ r.data.kind = "stage" /\ r.data.stage = "return"
           /\ r.data.outcome = StatusAccepted =>
              r.code = 202 /\ projects' = projects
        /\ r.op = "trigger" /\ r.code = 202 =>
              r.data.outcome = StatusAccepted /\ projects' = projects

C8_StepOriginal ==
    /\ AcceptedWithoutWrite
    /\ \A p \in projects' : p.id \in awaiting' => p.render_status = "generating"
    /\ NeverInitiated(projects')

C8_StepAmended ==
    /\ AcceptedWithoutWrite
    /\ \A i \in awaiting' \ awaiting :
          HasRow(projects', i) /\ RowIn(projects', i).render_status = "generating"
    /\ \A p \in projects :
          /\ p.id \in awaiting /\ p.render_status = "generating"
          /\ HasRow(projects', p.id)
          /\ RowIn(projects', p.id).render_status # "generating"
          => resp'.op \in {"callback", "trigger", "update"} /\ resp'.pid = p.id
    /\ NeverInitiated(projects')

C9_StepOrdered ==
    LET r == resp'
    IN
    /\ \A s \in Slots :
          LET q == req'[s]
          IN  q.pc # "idle" =>
                 /\ q.claims.UserID = q.project.user_id
                 /\ q.llmCalls <= 1 /\ q.renderCalls <= 1
                 /\ q.pc = "mark" =>
                       q.markErr = "none" /\ q.llmCalls = 0 /\ q.renderCalls = 0
                 /\ q.pc = "llm" =>
                       q.markErr # "none" /\ q.llmCalls = 0 /\ q.renderCalls = 0
                 /\ q.pc = "send" =>
                       q.llmCalls = 1 /\ q.llmOk /\ q.renderCalls = 0
                 /\ q.pc = "wait" =>
                       q.llmCalls = 1 /\ q.llmOk /\ q.renderCalls = 1
    /\ r.op = "trigger" /\ r.data.kind = "stage" /\ r.data.stage = "mark" =>
          \E s \in Slots : req[s].pc = "mark" /\ req'[s].pc = "llm"
    /\ r.op = "trigger" /\ r.data.kind = "stage" /\ r.data.stage = "llm"
       /\ r.data.outcome = 0 =>
          /\ r.code = 500
          /\ \E s \in Slots :
                req[s].pc = "llm" /\ req[s].project.id = r.pid
                /\ req'[s] = IdleSlot
          /\ r.data.writeErr = "nil" =>
                /\ HasRow(projects', r.pid)
                /\ RowIn(projects', r.pid).render_status = "failed: code_gen_error"

\* C9: within one generate-render request the ownership check, the attempt
\* to persist "generating" (whose failure does not abort), one LLM call and
\* one POST to the render service happen in this order and at most once;
\* the render service is called only after the LLM succeeded, an LLM error
\* persists "failed: code_gen_error", and no outbound call is repeated.
C9_OrderedOnce == [][C9_StepOrdered]_vars

\* the "generating" write failed and the request still reached the render
\* service
C9_Witness ==
    \E s \in Slots :
       /\ req[s].pc = "wait" /\ req[s].markErr \notin {"none", "nil"}
       /\ req[s].llmCalls = 1 /\ req[s].renderCalls = 1

\* ---- C10
C10_StepConflict ==
    LET r == resp'
    IN  /\ r.op = "register"
        /\ ValidRegister(r.data.username, r.data.email, r.data.password)
        /\ \E u \in users : EqualFold(u.email, r.data.email)
        => r.code = 409 /\ users' = users

\* C10: while an account registered with email e exists, every later
\* registration whose email equals e ignoring letter case is answered 409
\* and stores no user row, whatever username it carries.
C10_DuplicateEmail == [][C10_StepConflict]_vars

\* a registration under another username, with the email in another
\* letter case, was answered 409
C10_Witness ==
    /\ resp.op = "register" /\ resp.code = 409
    /\ \E u \in users :
          /\ EqualFold(u.email, resp.data.email)
          /\ u.email # resp.data.email
          /\ u.username # resp.data.username

\* ---- C11
IsLower(t) == \A i \in 1..Len(t) : LowerOf(t[i]) = t[i]
BearerOf(token) == Header(T_Bearer, token, "HS256", TRUE, FALSE)

\* a login with this email and password is answered with a token that the
\* middleware accepts and that carries the row's email, username and id
LoginYieldsTokenOf(u, email, password) ==
    LET answer == LoginResponse(email, password)
    IN  /\ answer.code = 200 /\ answer.data.kind = "token"
        /\ answer.data.token.Email = u.email
        /\ answer.data.token.Username = u.username
        /\ answer.data.token.Subject = u.id
        /\ answer.data.token.UserID = u.id
        /\ AuthMiddleware(BearerOf(answer.data.token)) =
              [ok |-> TRUE, claims |-> answer.data.token]

\* every account can be logged into with the credentials it was made with
AccountsLogIn ==
    \A u \in users, e \in LoginEmails, p \in LoginPasswords :
       EqualFold(u.email, e) /\ CompareHashAndPassword(u.password_hash, p)
          => LoginYieldsTokenOf(u, e, p)

C11_StepLogin ==
    LET r == resp'
    IN
    /\ r.op = "register" /\ r.code = 201 =>
          \E u \in users' \ users :
             /\ users' = users \cup {u}
             /\ u.username = r.data.username
             /\ EqualFold(u.email, r.data.email) /\ IsLower(u.email)
             /\ CompareHashAndPassword(u.password_hash, r.data.password)
    /\ r.op = "login" /\ r.code = 200 =>
          \E u \in users :
             /\ r.data.token.Subject = u.id /\ r.data.token.Email = u.email
             /\ r.data.token.Username = u.username
             /\ r.data.token \in tokens'

\* C11: after a valid registration succeeded, a login with the same email
\* and password, while the account exists, succeeds and returns a token
\* that verification accepts and whose claims carry the account's email
\* (as stored, lower-cased), its username and a subject equal to its id.
C11_RegisterThenLogin == [][C11_StepLogin]_vars /\ []AccountsLogIn

\* a login with the email in the letter case it was registered with, which
\* is not the stored one, returned the account's token
C11_Witness ==
    /\ resp.op = "login" /\ resp.code = 200
    /\ \E u \in users :
          /\ resp.data.token.Subject = u.id
          /\ LoginYieldsTokenOf(u, T_A_at_x, T_password)
          /\ u.email # T_A_at_x

\* ---- C12
UniqueUsers(rows) ==
    \A u, v \in rows : u # v => u.email # v.email /\ u.username # v.username

C12_StepRegister ==
    LET r == resp'
    IN  /\ r.op = "register" =>
           /\ r.code \in {201, 409, 400}
           /\ /\ ValidRegister(r.data.username, r.data.email, r.data.password)
              /\ \E u \in users : \/ EqualFold(u.email, r.data.email)
                                  \/ u.username = r.data.username
              => r.code = 409
        /\ UniqueUsers(users')

\* C12: a registration that would duplicate the email or the username of
\* an existing user is answered 409; register only answers 201, 409 or 400;
\* no two user rows ever share an email or a username.
C12_RegisterConflict == [][C12_StepRegister]_vars

\* ---- C16
C16_StepDelete ==
    LET r == resp'
    IN  r.op = "delete_account" =>
           \A u \in users \ users' : u.id = r.caller

\* C16: POST /api/delete deletes only the user row whose id is the subject
\* of the presented token.
C16_DeletesOwnRow == [][C16_StepDelete]_vars

\* ---- C19
\* C19: in every state a login with an email that has no user and a login
\* with an existing email and a wrong password get the same response.
C19_LoginFailuresAlike ==
    \A e1 \in LoginEmails, e2 \in LoginEmails, p1 \in LoginPasswords,
       p2 \in LoginPasswords :
       /\ \A u \in users : ~EqualFold(u.email, e1)
       /\ \E u \in users : /\ EqualFold(u.email, e2)
                           /\ ~CompareHashAndPassword(u.password_hash, p2)
       => /\ LoginResponse(e1, p1) = LoginResponse(e2, p2)
          /\ LoginResponse(e1, p1).code = 401
          /\ LoginResponse(e1, p1).data = ErrorData("Invalid credentials")

\* a login was refused while one email has an account and another has none
C19_Witness ==
    /\ resp.op = "login" /\ resp.code = 401
    /\ \E e1 \in LoginEmails, e2 \in LoginEmails, p2 \in LoginPasswords :
          /\ \A u \in users : ~EqualFold(u.email, e1)
          /\ \E u \in users : /\ EqualFold(u.email, e2)
                              /\ ~CompareHashAndPassword(u.password_hash, p2)
          /\ resp = LoginResponse(e2, p2)

\* ---- C13
Owns(userID, name) ==
    \E p \in projects : p.user_id = userID /\ p.name = name
OtherOwns(userID, name) ==
    \E p \in projects : p.user_id # userID /\ p.name = name

C13_StepScoped ==
    resp'.op = "create" =>
    \A h \in Headers, n \in AccessNames :
       CreateManimProject(h, n, <<>>, T_sp_prompt, MaxProjects)
          /\ AuthMiddleware(h).ok =>
          LET caller == AuthMiddleware(h).claims.UserID
          IN  /\ Owns(caller, n) =>
                    resp'.code = 409 /\ projects' = projects
              /\ ~Owns(caller, n) /\ OtherOwns(caller, n) =>
                    /\ resp'.code = 201
                    /\ \E p \in projects' \ projects :
                          /\ projects' = projects \cup {p}
                          /\ p.user_id = caller /\ p.name = n
                          /\ p.id = resp'.pid

\* C13: a valid create whose name the caller already owns is answered 409
\* and stores no row; a valid create whose name only another user owns is
\* answered 201 and stores a row of that name for the caller.
C13_ConflictPerOwner == [][C13_StepScoped]_vars

\* two users own a project of the same name, and a further create of that
\* name was answered 409
C13_Witness ==
    /\ resp.op = "create" /\ resp.code = 409
    /\ \E p, q \in projects :
          /\ p.name = q.name /\ p.user_id # q.user_id
          /\ resp.caller = p.user_id

\* ---- C14
\* C14: in every reachable state, whatever the interleaving of create and
\* update requests, no two project rows have the same owner and name, and
\* every stored name is non-empty.
C14_UniqueNonEmptyNames ==
    /\ \A p, q \in projects :
          p # q => ~(p.user_id = q.user_id /\ p.name = q.name)
    /\ \A p \in projects : p.name # <<>>

\* a write whose check had passed was refused because a request in between
\* had taken the name
C14_Witness ==
    \E s \in Slots :
       /\ req[s].pc \in {"insert", "write"}
       /\ \E q \in projects :
             /\ q.user_id = req[s].project.user_id
             /\ q.name = req[s].project.name
             /\ req[s].pc = "write" => q.id # req[s].project.id

\* ---- C15
\* s is t without its leading and trailing white space
IsTrimOf(t, s) ==
    \E i \in 1..Len(t) + 1, j \in 0..Len(t) :
       /\ s = SubSeq(t, i, j)
       /\ \A k \in 1..i - 1 : t[k] \in Space
       /\ \A k \in j + 1..Len(t) : t[k] \in Space
       /\ s # <<>> => s[1] \notin Space /\ s[Len(s)] \notin Space

Supplied(field, old, new) ==
    IF field.set THEN IsTrimOf(field.v, new) ELSE new = old

C15_StepPartial ==
    resp'.op = "update" =>
    \A h \in Headers, i \in IDParams, b \in UpdateBodies :
       /\ i.id = resp'.pid /\ HasRow(projects, i.id)
       /\ AuthMiddleware(h).ok /\ ValidUpdate(b.name, b.prompt)
       /\ UpdateManimProject(h, i, b.name, b.description, b.prompt)
       => LET caller == AuthMiddleware(h).claims.UserID
              old == RowIn(projects, i.id)
          IN  /\ resp'.code # 200 => projects' = projects
              /\ resp'.code = 200 =>
                    /\ HasRow(projects', i.id)
                    /\ projects' \ {RowIn(projects', i.id)} = projects \ {old}
                    /\ LET new == RowIn(projects', i.id)
                       IN  /\ Supplied(b.name, old.name, new.name)
                           /\ Supplied(b.description, old.description,
                                       new.description)
                           /\ Supplied(b.prompt, old.prompt, new.prompt)
                           /\ new.user_id = old.user_id
                           /\ new.render_status = old.render_status
                           /\ new.video_url = old.video_url
              /\ /\ old.user_id = caller /\ b.name.set
                 /\ IsTrimOf(b.name.v, old.name)
                 => resp'.code = 200
              /\ /\ old.user_id = caller /\ b.name.set
                 /\ \E q \in projects : /\ q.id # old.id /\ q.user_id = caller
                                        /\ IsTrimOf(b.name.v, q.name)
                 => resp'.code = 409

Gone(pid) == pid \in 1..nextProjectID - 1 /\ pid \notin ProjectIDs
LookupOps == {"get", "update", "delete", "trigger"}

C17_StepCascade ==
    /\ resp'.op = "delete_account" /\ resp'.code = 204 =>
          /\ users' # users
          /\ \A u \in users \ users', p \in projects' : p.user_id # u.id
    /\ \A p \in projects' : \E u \in users' : u.id = p.user_id
    /\ resp'.op \in LookupOps =>
          \A h \in Headers, i \in IDParams :
             i.id = resp'.pid /\ Gone(i.id) /\ AuthMiddleware(h).ok =>
                /\ GetManimProjectByID(h, i) => resp'.code = 404
                /\ UpdateManimProject(h, i, Nil, Nil, Nil) =>
                      resp'.code = 404 /\ projects' = projects
                /\ DeleteManimProject(h, i) =>
                      resp'.code = 404 /\ projects' = projects
                /\ \A s \in Slots :
                      TriggerBegin(s, h, i) => resp'.code = 404 /\ req' = req
    /\ resp'.op = "callback" =>
          \A i \in IDParams :
             /\ i.id = resp'.pid /\ Gone(i.id)
             /\ HandleRenderCallback(TRUE, i, "completed", U_cdn)
             => resp'.code = 404 /\ projects' = projects

\* C17: an account deletion answered 204 leaves no project row of the
\* deleted user, no row of a user that does not exist is ever stored, and
\* get, update, delete, generate-render and render-callback on the id of a
\* project whose row is gone answer 404 and change nothing.
C17_CascadeThenNotFound == [][C17_StepCascade]_vars

\* after an account was deleted, a lookup of a project id that had been
\* given out found nothing, while the other account still has its project
C17_Witness ==
    /\ resp.op \in LookupOps \cup {"callback"} /\ resp.code = 404
    /\ Gone(resp.pid)
    /\ nextUserID - 1 > Cardinality(users)
    /\ projects # {}

\* ---- C18
\* the request was refused and nothing but the response changed
Refused ==
    /\ resp'.code = 401 /\ resp'.caller = 0 /\ resp'.data = NoData
    /\ UNCHANGED mergedVideos
    /\ UNCHANGED <<users, nextUserID, projects, nextProjectID, tokens, req,
                   awaiting>>

C18_StepGuarded ==
    \A h \in Rejected :
       /\ resp'.op = "profile" => (GetProfile(h) => Refused)
       /\ resp'.op = "delete_account" => (DeleteUser(h) => Refused)
       /\ resp'.op = "list" => (GetUserManimProjects(h) => Refused)
       /\ resp'.op = "create" =>
             \A n \in AccessNames :
                CreateManimProject(h, n, <<>>, T_sp_prompt, MaxRenderProjects)
                   => Refused
       /\ \A i \in IDParams :
             i.id = resp'.pid =>
                /\ resp'.op = "get" => (GetManimProjectByID(h, i) => Refused)
                /\ resp'.op = "update" =>
                      (UpdateManimProject(h, i, Nil, Ptr(T_desc), Nil)
                          => Refused)
                /\ resp'.op = "delete" =>
                      (DeleteManimProject(h, i) => Refused)
                /\ resp'.op = "trigger" =>
                      \A s \in Slots : TriggerBegin(s, h, i) => Refused

\* C18: a request to a route of the /api group (profile, delete, project
\* create, list, get, update, delete, generate-render) with no
\* Authorization header, a header that is not "Bearer <token>", or a token
\* that is expired, badly signed or not HMAC-signed is answered 401, and no
\* row changes and no generate-render request is started.
C18_BearerGuard == [][C18_StepGuarded]_vars

\* a request on the route of an existing project was refused although a
\* token of the project's owner has been issued
C18_Witness ==
    /\ resp.code = 401 /\ resp.op \in {"get", "update", "delete", "trigger"}
    /\ HasRow(projects, resp.pid)
    /\ \E c \in tokens : \E p \in projects : p.user_id = c.UserID

\* ---- C20
Recorded(rows, id, url) == [id |-> id, r2_url |-> url] \in rows
Posted(r) == r.op = "merge" /\ r.data.posts = 1
ServiceFailed(r) ==
    /\ Posted(r)
    /\ \/ r.data.up.kind = "unreachable"
       \/ r.data.up.kind = "answer" /\ r.data.up.code # StatusOK

\* what the claim says of the failures after the merge and of the record
C20_RecordParts(r) ==
    /\ Posted(r) /\ r.data.posts = 1 /\ r.data.writes = 1 /\ r.code # StatusOK
          => r.code = 500 /\ mergedVideos' = mergedVideos
    /\ r.op = "merge" => r.data.posts <= 1 /\ r.data.writes <= 1
    /\ r.op = "merge" /\ r.code = StatusOK =>
          /\ r.data.writes = 1
          /\ Recorded(mergedVideos', r.data.MergedVideoID,
                      r.data.MergedVideoURL)
          /\ \A m \in mergedVideos' :
                m.id # r.data.MergedVideoID => m \in mergedVideos
          /\ \A m \in mergedVideos :
                m.id # r.data.MergedVideoID => m \in mergedVideos'
    /\ r.op = "merge" /\ r.code # StatusOK => mergedVideos' = mergedVideos

C20_StepOriginal ==
    LET r == resp'
    IN  /\ ServiceFailed(r) =>
              r.code = StatusBadGateway /\ mergedVideos' = mergedVideos
        /\ C20_RecordParts(r)

\* C20 as stated: every failure of the render service, unreachable or a
\* non-success status, is answered 502.
C20_Original == [][C20_StepOriginal]_vars

C20_StepAmended ==
    LET r == resp'
    IN  /\ ServiceFailed(r) =>
              /\ mergedVideos' = mergedVideos
              /\ r.data.up.kind = "unreachable" => r.code = StatusBadGateway
              /\ r.data.up.kind = "answer" => r.code = r.data.up.code
        /\ Posted(r) /\ r.data.up.kind = "answer" /\ r.data.up.code = StatusOK
              /\ ~r.data.up.parsable
              => r.code = 500 /\ mergedVideos' = mergedVideos
        /\ Posted(r) /\ r.data.up.kind = "unreadable"
              => r.code = 500 /\ mergedVideos' = mergedVideos
        /\ C20_RecordParts(r)

\* C20 (amended): an unreachable render service is answered 502; a render
\* service that answers a status other than 200 is answered with that same
\* status; an unreadable answer or an unparsable 200 body is answered 500;
\* none of these writes a record.  A failed write after a successful merge
\* is answered 500, with one POST and one write attempt.  A record
\* (id, url) is written exactly when the handler answers 200 with them.
C20_MergeFailures == [][C20_StepAmended]_vars

\* a merge was answered 200 with the public URL in place of the render
\* service's internal one, replacing the record the id had
C20_Witness ==
    /\ resp.op = "merge" /\ resp.code = StatusOK
    /\ resp.data.MergedVideoURL = FrontendR2PublicDomain \o T_path
    /\ resp.data.up.url.origin = T_r2in
    /\ Cardinality(mergedVideos) = 2

\* ---- C21
\* status and URL a callback payload determines
Determined(old, status, url) ==
    [old EXCEPT !.render_status = status,
                !.video_url = IF status = "completed" /\ url # "" /\ url # "N/A"
                              THEN ValidString(url) ELSE NullString]

C21_StepLastWins ==
    LET r == resp'
    IN  r.op = "callback" /\ r.data.kind = "payload" /\ HasRow(projects, r.pid) =>
           /\ r.code = 200
           /\ projects' =
                 (projects \ {RowIn(projects, r.pid)})
                 \cup {Determined(RowIn(projects, r.pid), r.data.status,
                                  r.data.url)}

\* C21: no callback for an existing project is rejected, and after it the
\* project's status and URL are those its payload determines, whatever
\* they were before; so a repeated callback changes nothing more and the
\* last callback of a sequence decides.
C21_LastCallbackWins == [][C21_StepLastWins]_vars
\* ---- C22
NameFree(row) ==
    \A q \in projects :
        q.user_id = row.user_id /\ q.name = row.name => q.id = row.id

C22_StepLastWriter ==
    \A s \in Slots :
        /\ req[s].pc = "write"
        /\ req'[s].pc = "idle"
        /\ HasRow(projects, req[s].project.id)
        /\ NameFree(req[s].project)
        => /\ resp'.op = "update"
           /\ resp'.code = 200
           /\ HasRow(projects', req[s].project.id)
           /\ RowIn(projects', req[s].project.id) = req[s].project
           /\ \A f \in {"name", "description", "prompt"} :
                 req[s].project[f] = req[s].read[f]
                 \/ RowIn(projects', req[s].project.id)[f] # req[s].read[f]

\* C22: when two updates of the same project overlap, both are answered
\* with success and the stored row is the entire row written by the later
\* write: the fields the later request supplied, and for every other field
\* the value that request read, whatever the earlier write stored there.
\* The case is that of the two updates: the project still exists at the
\* later write, and no third request has meanwhile given another project
\* of the owner the name the later write stores.
C22_LastWriterWins == [][C22_StepLastWriter]_vars

\* the earlier update has been answered with success and stored a row that
\* differs from the one the later request read and is about to write over
C22_Witness ==
    \E s \in Slots :
        /\ req[s].pc = "write"
        /\ resp.op = "update"
        /\ resp.code = 200
        /\ HasRow(projects, req[s].project.id)
        /\ RowIn(projects, req[s].project.id) # req[s].read
        /\ RowIn(projects, req[s].project.id).name # req[s].read.name
        /\ req[s].project.name = req[s].read.name

\* ---- C23
C23_StepDeletedNotFound ==
    LET r == resp'
    IN  r.op = "callback" /\ r.data.kind = "payload" /\ ~HasRow(projects, r.pid) =>
           /\ r.code = 404
           /\ projects' = projects

\* C23: a callback for a project that is deleted before the callback's
\* write, including a delete between the callback's read and its write, is
\* answered Not Found and never re-creates the row.
C23_DeletedCallbackNotFound == [][C23_StepDeletedNotFound]_vars

\* ---- C24
C24_StepCreate ==
    resp'.op = "create" =>
    /\ \A h \in Headers, n \in CreateNames :
          /\ CreateManimProject(h, n, <<>>, T_sp_prompt, MaxProjects)
          /\ AuthMiddleware(h).ok
          /\ ValidCreate(n, T_sp_prompt)
          /\ Owns(AuthMiddleware(h).claims.UserID, TrimSpace(n))
          => resp'.code = 409 /\ projects' = projects
    /\ resp'.code = 201 =>
          \A p \in projects' \ projects : Len(p.name) >= NameMin

\* C24: the create operation looks for a conflict under the name it stores,
\* the trimmed one: a valid create whose trimmed name the caller already
\* owns is answered 409 without reaching the insert, and every create
\* answered 201 stores a name of at least three characters.
C24_ConflictOnStoredName == [][C24_StepCreate]_vars

\* ---- C25
C25_StepUpdateKeepsRender ==
    resp'.op = "update" =>
        \A p \in projects :
            HasRow(projects', p.id) =>
               /\ RowIn(projects', p.id).render_status = p.render_status
               /\ RowIn(projects', p.id).video_url = p.video_url

\* C25: no step of an update (PUT) changes the render_status or the
\* video_url of a stored project, whatever callback or generate-render
\* request ran since the update read the project.
C25_UpdateKeepsRender == [][C25_StepUpdateKeepsRender]_vars

\* ---- C26
C26_StepRenderKeepsText ==
    resp'.op \in {"callback", "trigger"} =>
        \A p \in projects :
            HasRow(projects', p.id) =>
               /\ RowIn(projects', p.id).name = p.name
               /\ RowIn(projects', p.id).description = p.description
               /\ RowIn(projects', p.id).prompt = p.prompt
               /\ RowIn(projects', p.id).user_id = p.user_id

\* C26: no step of a render callback or of a generate-render request
\* changes the name, the description, the prompt or the owner of a stored
\* project, whatever update ran since the request read the project.
C26_RenderKeepsText == [][C26_StepRenderKeepsText]_vars

\* ---- C27
C27_StepKeepCompleted ==
    \A s \in Slots :
        /\ req[s].pc = "wait"
        /\ resp.op = "callback" /\ resp.code = 200
        /\ resp.pid = req[s].project.id
        /\ resp.data.status = "completed"
        /\ HasRow(projects, req[s].project.id)
        /\ RowIn(projects, req[s].project.id).video_url.Valid
        /\ req'[s].pc = "idle"
        => /\ HasRow(projects', req[s].project.id)
           /\ RowIn(projects', req[s].project.id).render_status = "completed"
           /\ RowIn(projects', req[s].project.id).video_url
                 = RowIn(projects, req[s].project.id).video_url

\* C27: once a callback has recorded "completed" with a video URL while the
\* generate-render request that launched the job still waits for the render
\* service's answer, the end of that request, whatever the answer, leaves
\* the project "completed" with that URL.
C27_CompletedNotOverwritten == [][C27_StepKeepCompleted]_vars

\* ---- C28
OwnersExist == \A p \in projects : \E u \in users : u.id = p.user_id

C28_StepDeletedAccount ==
    LET caller == resp'.caller
    IN  caller # NoClaims.UserID /\ (\A u \in users : u.id # caller) =>
           projects' = projects

\* C28: every project's owner is an existing user, and a request whose
\* token belongs to an account that has been deleted leaves the project
\* rows as they are: it creates none and changes or removes none.
C28_OwnersExistTokensHarmless ==
    [][C28_StepDeletedAccount]_vars /\ []OwnersExist

\* ---- C29
InProgress(s) == req[s].pc \in {"mark", "llm", "send", "wait"}

\* C29: every generate-render request that has started eventually returns
\* its response, even when the LLM or the render service never answers.
C29_TriggerReturns ==
    \A s \in Slots : InProgress(s) ~> req[s].pc = "idle"

\* ---- C30
C30_StepSingleJob ==
    \A s \in Slots :
        /\ req[s].pc = "send"
        /\ req'[s].pc = "wait"
        => /\ req'[s].renderCalls = req[s].renderCalls + 1
           /\ req[s].project.id \notin awaiting

\* C30: a generate-render request never sends a render job for a project
\* whose earlier job was accepted and still awaits its callback: at most
\* one render job per project is outstanding.
C30_OneJobOutstanding == [][C30_StepSingleJob]_vars

====
